---- MODULE Spec2Model ----
(***************************************************************************)
(* Model of the whisper streaming server (src/src/whisper_server.cpp,      *)
(* src/src/whisper_server.hpp, src/src/audio_buffer.cpp, src/src/main.cpp).*)
(*                                                                         *)
(* Three threads are modelled: the uWS event loop ("reactor": open,        *)
(* message, close handlers and deferred flush tasks), the inference thread *)
(* ("worker": WhisperServer::inferenceLoop) and the thread that calls      *)
(* WhisperServer::stop.  One step of a thread is one critical section      *)
(* (a block under one mutex or one atomic access) together with the        *)
(* thread-private work around it; an inference call (whisper_full) spans   *)
(* two steps, so the states in between are "inference executing".          *)
(*                                                                         *)
(* A float sample is written as the pair <<numerator, 32768>>.  A text is  *)
(* a sequence of one-character strings.  Session ids are the values of     *)
(* session_counter (main.cpp names them "session_<n>").  The null slot     *)
(* pointer is 0; slot k of the pool is the number k+1 (slot_id = k).       *)
(***************************************************************************)
EXTENDS Naturals, Integers, Sequences, FiniteSets, TLC

\* ---------------------------------------------------------------- bounds
\* connections opened during a run (values of session_counter)
MaxSessions == 2
\* iterations of the worker's while loop during a run
MaxIter == 2
\* largest capacity (max_samples_) of a ring exercised on its own
MaxCap == 2
\* samples pushed into a ring exercised on its own
MaxPushed == 3
\* VAD ticks of a session state machine exercised on its own
MaxTicks == 3
\* runInference and emitFinal calls on a session exercised on its own
MaxCalls == 4
\* frames pushed into a ring read by duration
MaxFrames == 2

\* ------------------------------------------- configuration of the run
\* size of the context pool: the server is run with --contexts 1
n_contexts == 1
\* sample counts are scaled down; their order relations are the program's
\* AudioBuffer::max_samples_
max_samples == 1
\* n_samples_len of runInference
n_samples_len == 1
\* n_samples_keep of runInference
n_samples_keep == 1
\* min_samples of hasMinDuration(step_ms)
n_samples_step == 1
\* n_samples of getLastMs(vad_check_ms)
n_samples_vad == 1
\* ServerConfig defaults, in milliseconds
step_ms == 500
vad_check_ms == 30
silence_trigger_ms == 1000
min_speech_ms == 100
\* vad_threshold 0.5f; probabilities are written in percent
vad_threshold == 50

Ids == 1..MaxSessions
Slots == 1..n_contexts
NoSlot == 0

\* elapsed wall-clock time of one loop iteration (sleep + inference time)
ClockSteps == {step_ms \div 2, step_ms, silence_trigger_ms}
\* the probabilities the VAD model may report, in percent
VadProbs == {0, 50, 90}
\* int16 sample values carried by the frames of a run
PcmSamples == {0}
\* segment texts whisper_full may produce (before trimming)
RawTexts == {<< >>, <<" ">>, <<"a">>, <<" ", "a", " ">>}
\* return codes of whisper_full
ReturnCodes == {0, 1}

\* ------------------------------------------------------------- helpers
Min(a, b) == IF a <= b THEN a ELSE b
Max(a, b) == IF a >= b THEN a ELSE b

RECURSIVE SeqsOf(_)
\* all orders in which a container with unspecified order may be iterated
SeqsOf(S) ==
  IF S = {} THEN {<< >>}
  ELSE UNION {{<<x>> \o t : t \in SeqsOf(S \ {x})} : x \in S}

Range(q) == {q[i] : i \in 1..Len(q)}

Reverse(q) == [i \in 1..Len(q) |-> q[Len(q) + 1 - i]]

Whitespace == {" ", "\t", "\n", "\r"}

RECURSIVE TrimLeft(_)
TrimLeft(t) ==
  IF t = << >> THEN << >>
  ELSE IF Head(t) \in Whitespace THEN TrimLeft(Tail(t)) ELSE t

RECURSIVE TrimRight(_)
TrimRight(t) ==
  IF t = << >> THEN << >>
  ELSE IF t[Len(t)] \in Whitespace THEN TrimRight(SubSeq(t, 1, Len(t) - 1)) ELSE t

\* find_first_not_of / find_last_not_of / substr, or clear()
Trim(t) == TrimRight(TrimLeft(t))

\* ------------------------------------------------------- AudioBuffer
int16ToFloat(x) == <<x, 32768>>

RECURSIVE TrimToMax(_)
TrimToMax(buf) == IF Len(buf) > max_samples THEN TrimToMax(Tail(buf)) ELSE buf

AudioPush(buf, samples) ==
  TrimToMax(buf \o [i \in 1..Len(samples) |-> int16ToFloat(samples[i])])

AudioGetLastMs(buf) ==
  LET n == Min(n_samples_vad, Len(buf))
  IN SubSeq(buf, Len(buf) - n + 1, Len(buf))

AudioHasMinDuration(buf) == Len(buf) >= n_samples_step

\* a trim loop that pops the newest sample
RECURSIVE TrimTo_DropNewest(_, _)
TrimTo_DropNewest(buf, m) ==
  IF Len(buf) > m THEN TrimTo_DropNewest(SubSeq(buf, 1, Len(buf) - 1), m) ELSE buf

\* while (buffer_.size() > max_samples_) buffer_.pop_front(), for a ring
\* of capacity m
RECURSIVE TrimTo(_, _)
TrimTo(buf, m) == IF Len(buf) > m THEN TrimTo(Tail(buf), m) ELSE buf

\* AudioBuffer::push on a ring of capacity m
push(buf, samples, m) ==
  TrimTo(buf \o [i \in 1..Len(samples) |-> int16ToFloat(samples[i])], m)

\* a pushFloat without the trim loop
pushFloat_NoTrim(buf, floats, m) == buf \o floats

\* AudioBuffer::pushFloat on a ring of capacity m
pushFloat(buf, floats, m) == TrimTo(buf \o floats, m)

\* AudioBuffer::get: the samples copied to out
getOut(buf, n) == SubSeq(buf, 1, Min(n, Len(buf)))

\* AudioBuffer::get: the ring it leaves
getRest(buf, n, clear_retrieved) ==
  IF clear_retrieved THEN SubSeq(buf, Min(n, Len(buf)) + 1, Len(buf)) ELSE buf

\* AudioBuffer::getLastMs for a duration of n samples
getLast(buf, n) == SubSeq(buf, Len(buf) - Min(n, Len(buf)) + 1, Len(buf))

\* AudioBuffer::getAll
getAll(buf) == buf

\* WHISPER_SAMPLE_RATE, the sample_rate of every session's AudioBuffer
sample_rate == 16000

\* the integer nearest to a / b, ties to even
RoundHalfEven(a, b) ==
  LET q == a \div b
      r == a % b
  IN IF 2 * r > b THEN q + 1
     ELSE IF 2 * r < b THEN q
     ELSE IF q % 2 = 0 THEN q ELSE q + 1

\* the least t with x * 2^t >= lo
RECURSIVE ScaleExp(_, _, _)
ScaleExp(x, lo, t) == IF x >= lo THEN t ELSE ScaleExp(2 * x, lo, t + 1)

\* static_cast<size_t>((ms / 1000.0f) * sample_rate_) in IEEE single
\* precision, for 0 <= ms < 2^20.  1000 = 125 * 2^3 and 16000 = 125 * 2^7.
\* The quotient ms / 1000.0f is rounded to a 24-bit significand m, worth
\* m * 2^-(t+3); its product with 16000 is (m * 125) * 2^(4-t), rounded
\* to 24 bits again (M2 * 2^e); the cast truncates.
MsToSamples(ms) ==
  IF ms = 0 THEN 0
  ELSE LET odd == 1000 \div 2^3
           t == ScaleExp(ms, odd * 2^23, 0)
           m == RoundHalfEven(ms * 2^t, odd)
           X == m * (sample_rate \div 2^7)
           j == IF X < 2^30 THEN 6 ELSE 7
           M2 == RoundHalfEven(X, 2^j)
           e == j + 4 - t
       IN IF e >= 0 THEN M2 * 2^e ELSE M2 \div 2^(0 - e)

\* AudioBuffer::getLastMs(ms)
getLastMs(buf, ms) == getLast(buf, MsToSamples(ms))

\* AudioBuffer::hasMinDuration(min_ms)
hasMinDuration(buf, min_ms) == Len(buf) >= MsToSamples(min_ms)

\* int16 values of the frames pushed into a ring exercised on its own
RingSamples == {1, 2}

\* the frames: one or two samples
RingChunks == {<<x>> : x \in RingSamples} \cup {<<x, y>> : x, y \in RingSamples}

\* frames a client may send
PcmChunks == {<<x>> : x \in PcmSamples}

\* ------------------------------------------------------------ messages
makeReadyMessage == [type |-> "ready", text |-> << >>]
makePartialMessage(text) == [type |-> "partial", text |-> text]
makeFinalMessage(text) == [type |-> "final", text |-> text]
makeErrorMessage == [type |-> "error", text |-> << >>]

\* ------------------------------------------------------------- Session
\* NewSession with a wrong default for speech_state
NewSession_Speaking(slot) ==
  [ audio             |-> << >>,
    pcmf32_old        |-> << >>,
    last_text         |-> << >>,
    context_slot      |-> slot,
    active            |-> TRUE,
    inference_running |-> FALSE,
    speech_state      |-> "SPEAKING",
    speech_start_ms   |-> 0,
    last_speech_ms    |-> 0,
    pending_text      |-> << >>,
    ws_handle         |-> FALSE,
    flush_pending     |-> FALSE,
    outgoing_messages |-> << >>,
    final_enqueued    |-> FALSE ]

\* struct Session after createSession(id) with the acquired slot;
\* final_enqueued is history: a final was enqueued since the session last
\* went from IDLE to SPEAKING
NewSession(slot) ==
  [ audio             |-> << >>,
    pcmf32_old        |-> << >>,
    last_text         |-> << >>,
    context_slot      |-> slot,
    active            |-> TRUE,
    inference_running |-> FALSE,
    speech_state      |-> "IDLE",
    speech_start_ms   |-> 0,
    last_speech_ms    |-> 0,
    pending_text      |-> << >>,
    ws_handle         |-> FALSE,
    flush_pending     |-> FALSE,
    outgoing_messages |-> << >>,
    final_enqueued    |-> FALSE ]

\* no Session object: never created, or its last shared_ptr was dropped
NoSession ==
  [ audio             |-> << >>,
    pcmf32_old        |-> << >>,
    last_text         |-> << >>,
    context_slot      |-> NoSlot,
    active            |-> FALSE,
    inference_running |-> FALSE,
    speech_state      |-> "IDLE",
    speech_start_ms   |-> 0,
    last_speech_ms    |-> 0,
    pending_text      |-> << >>,
    ws_handle         |-> FALSE,
    flush_pending     |-> FALSE,
    outgoing_messages |-> << >>,
    final_enqueued    |-> FALSE ]

\* ------------------------------------------------------- context pool
\* acquireContext whose scan does not test in_use
acquireContext_NoTest(inuse) == CHOOSE k \in Slots : \A j \in Slots : k <= j

\* the scan of acquireContext: first slot with in_use = false, else null
acquireContext(inuse) ==
  IF \E k \in Slots : ~inuse[k]
  THEN CHOOSE k \in Slots : ~inuse[k] /\ \A j \in Slots : j < k => inuse[j]
  ELSE NoSlot

\* releaseContext that leaves in_use set
releaseContext_Leak(inuse, slot) == inuse

releaseContext(inuse, slot) ==
  IF slot # NoSlot THEN [inuse EXCEPT ![slot] = FALSE] ELSE inuse

\* createSession without the null check
createSessionFails_NoCheck(slot) == FALSE

\* createSession: if (!slot) return nullptr
createSessionFails(slot) == slot = NoSlot

VARIABLES
  unit,               \* the component a single-component specification runs
  vad_ctx,            \* a VAD model is loaded (vad_ctx_ != nullptr)
  running,            \* running_
  in_use,             \* ContextSlot::in_use of every pool slot
  holder,             \* history: id each slot was last acquired for, 0 once released
  sessions,           \* keys of sessions_
  sess,               \* the Session objects, by id
  session_counter,    \* the open handler's static counter
  conn,               \* state of each connection's socket
  wire,               \* frames written to each socket, in order
  deferred,           \* tasks posted with uWS::Loop::defer, in order
  rpc, r_id, r_slot,  \* reactor: position, session id and slot at hand
  wpc,                \* worker: position
  w_sessions, w_i,    \* worker: snapshot vector and index into it
  w_vad, w_whisper,   \* worker: which passes run in this iteration
  w_new,              \* worker: pcmf32_new of runInference
  w_text,             \* worker: text of the message being delivered
  now, last_vad_time, last_whisper_time,
  iterations,         \* history: loop iterations started so far
  spc                 \* thread calling stop(): position

vars == << unit, vad_ctx, running, in_use, holder, sessions, sess, session_counter,
           conn, wire, deferred, rpc, r_id, r_slot, wpc, w_sessions, w_i,
           w_vad, w_whisper, w_new, w_text, now, last_vad_time,
           last_whisper_time, iterations, spc >>

\* the server's variables
server_vars == << vad_ctx, running, in_use, holder, sessions, sess,
                  session_counter, conn, wire, deferred, rpc, r_id, r_slot,
                  wpc, w_sessions, w_i, w_vad, w_whisper, w_new, w_text, now,
                  last_vad_time, last_whisper_time, iterations, spc >>

\* the server right after init(), run() and listen(), no VAD model loaded
ServerIdle ==
  /\ vad_ctx = FALSE
  /\ running = TRUE
  /\ in_use = [k \in Slots |-> FALSE]
  /\ holder = [k \in Slots |-> 0]
  /\ sessions = {}
  /\ sess = [s \in Ids |-> NoSession]
  /\ session_counter = 0
  /\ conn = [s \in Ids |-> "none"]
  /\ wire = [s \in Ids |-> << >>]
  /\ deferred = << >>
  /\ rpc = "idle" /\ r_id = 0 /\ r_slot = NoSlot
  /\ wpc = "loop"
  /\ w_sessions = << >> /\ w_i = 1
  /\ w_vad = FALSE /\ w_whisper = FALSE
  /\ w_new = << >> /\ w_text = << >>
  /\ now = 0 /\ last_vad_time = 0 /\ last_whisper_time = 0
  /\ iterations = 0
  /\ spc = "idle"

\* the whole server runs: no single component is singled out
NoUnit == [component |-> "server"]

\* state after init(), run() and listen(): VAD model loaded or not
Init ==
  /\ unit = NoUnit
  /\ vad_ctx \in BOOLEAN
  /\ running = TRUE
  /\ in_use = [k \in Slots |-> FALSE]
  /\ holder = [k \in Slots |-> 0]
  /\ sessions = {}
  /\ sess = [s \in Ids |-> NoSession]
  /\ session_counter = 0
  /\ conn = [s \in Ids |-> "none"]
  /\ wire = [s \in Ids |-> << >>]
  /\ deferred = << >>
  /\ rpc = "idle" /\ r_id = 0 /\ r_slot = NoSlot
  /\ wpc = "loop"
  /\ w_sessions = << >> /\ w_i = 1
  /\ w_vad = FALSE /\ w_whisper = FALSE
  /\ w_new = << >> /\ w_text = << >>
  /\ now = 0 /\ last_vad_time = 0 /\ last_whisper_time = 0
  /\ iterations = 0
  /\ spc = "idle"

\* ------------------------------------------------ shared_ptr lifetime
\* the session the reactor's current handler holds a shared_ptr to
RHold(pc, id) == IF pc \in {"attach", "d_wait", "d_release", "f_drain"} THEN {id} ELSE {}

\* a Session whose last shared_ptr (registry, worker snapshot, handler
\* local) is gone is destroyed
Gc(f, live) == [s \in Ids |-> IF s \in live THEN f[s] ELSE NoSession]

\* ------------------------------------------------------------ reactor
\* WhisperServer::detachWebSocket
detachWebSocket(f, id) ==
  IF id \in sessions
  THEN [f EXCEPT ![id].ws_handle = FALSE, ![id].flush_pending = FALSE]
  ELSE f

\* the worker holds sessions_mutex_ for the whole loop iteration: a
\* lock taken for the snapshot and kept until the sleep
WorkerHoldsRegistry_WholeIteration == wpc \notin {"loop", "exited"}

\* the worker holds sessions_mutex_ while another thread takes a step: its
\* two lock_guard blocks, the snapshot in inferenceLoop and the lookup in
\* notifySessionHasMessages, begin and end inside one worker step, so
\* between its steps it does not; the handlers and stop(), which lock
\* sessions_mutex_, run only when this is false
WorkerHoldsRegistry == FALSE

\* open handler up to the return of acquireContext inside createSession
Open ==
  /\ rpc = "idle"
  /\ session_counter < MaxSessions
  /\ LET id == session_counter + 1
         slot == acquireContext(in_use)
     IN /\ session_counter' = id
        /\ conn' = [conn EXCEPT ![id] = "open"]
        /\ r_id' = id
        /\ r_slot' = slot
        /\ IF createSessionFails(slot)
           THEN /\ rpc' = "open_fail"
                /\ UNCHANGED << in_use, holder >>
           ELSE /\ rpc' = "create_insert"
                /\ in_use' = [k \in Slots |-> k = slot \/ in_use[k]]
                /\ holder' = [k \in Slots |-> IF k = slot THEN id ELSE holder[k]]
  /\ UNCHANGED << unit, vad_ctx, running, sessions, sess, wire, deferred, wpc,
                  w_sessions, w_i, w_vad, w_whisper, w_new, w_text, now,
                  last_vad_time, last_whisper_time, iterations, spc >>

\* createSession: make the Session and register it under sessions_mutex_
CreateInsert ==
  /\ rpc = "create_insert"
  /\ ~WorkerHoldsRegistry
  /\ sessions' = sessions \cup {r_id}
  /\ sess' = [sess EXCEPT ![r_id] = NewSession(r_slot)]
  /\ rpc' = "attach"
  /\ UNCHANGED << unit, vad_ctx, running, in_use, holder, session_counter, conn,
                  wire, deferred, r_id, r_slot, wpc, w_sessions, w_i, w_vad,
                  w_whisper, w_new, w_text, now, last_vad_time,
                  last_whisper_time, iterations, spc >>

\* an open handler that attaches the socket and sends nothing
Attach_NoReady ==
  /\ rpc = "attach"
  /\ ~WorkerHoldsRegistry
  /\ rpc' = "idle" /\ r_id' = 0 /\ r_slot' = NoSlot
  /\ sess' = Gc(IF r_id \in sessions
                THEN [sess EXCEPT ![r_id].ws_handle = TRUE]
                ELSE sess,
                sessions \cup Range(w_sessions))
  /\ UNCHANGED << unit, vad_ctx, running, in_use, holder, sessions,
                  session_counter, conn, wire, deferred, wpc, w_sessions, w_i,
                  w_vad, w_whisper, w_new, w_text, now, last_vad_time,
                  last_whisper_time, iterations, spc >>

\* open handler: attachWebSocket, then send the ready message
Attach ==
  /\ rpc = "attach"
  /\ ~WorkerHoldsRegistry
  /\ wire' = [wire EXCEPT ![r_id] = Append(@, makeReadyMessage)]
  /\ rpc' = "idle" /\ r_id' = 0 /\ r_slot' = NoSlot
  /\ sess' = Gc(IF r_id \in sessions
                THEN [sess EXCEPT ![r_id].ws_handle = TRUE]
                ELSE sess,
                sessions \cup Range(w_sessions))
  /\ UNCHANGED << unit, vad_ctx, running, in_use, holder, sessions, session_counter,
                  conn, deferred, wpc, w_sessions, w_i, w_vad, w_whisper,
                  w_new, w_text, now, last_vad_time, last_whisper_time, iterations, spc >>

\* open handler when createSession returned null: send error, close();
\* close() runs the close handler, which starts with detachWebSocket
OpenFail ==
  /\ rpc = "open_fail"
  /\ ~WorkerHoldsRegistry
  /\ wire' = [wire EXCEPT ![r_id] = Append(@, makeErrorMessage)]
  /\ conn' = [conn EXCEPT ![r_id] = "closed"]
  /\ sess' = detachWebSocket(sess, r_id)
  /\ rpc' = "d_erase"
  /\ UNCHANGED << unit, vad_ctx, running, in_use, holder, sessions, session_counter,
                  deferred, r_id, r_slot, wpc, w_sessions, w_i, w_vad,
                  w_whisper, w_new, w_text, now, last_vad_time,
                  last_whisper_time, iterations, spc >>

\* message handler, binary frame: onAudioReceived
Message(c, samples) ==
  /\ rpc = "idle"
  /\ ~WorkerHoldsRegistry
  /\ conn[c] = "open"
  /\ sess' = IF c \in sessions /\ sess[c].active
             THEN [sess EXCEPT ![c].audio = AudioPush(@, samples)]
             ELSE sess
  /\ UNCHANGED << unit, vad_ctx, running, in_use, holder, sessions, session_counter,
                  conn, wire, deferred, rpc, r_id, r_slot, wpc, w_sessions,
                  w_i, w_vad, w_whisper, w_new, w_text, now, last_vad_time,
                  last_whisper_time, iterations, spc >>

\* a close handler that returns without detachWebSocket and destroySession
Close_KeepsSession(c) ==
  /\ rpc = "idle"
  /\ conn[c] = "open"
  /\ conn' = [conn EXCEPT ![c] = "closed"]
  /\ UNCHANGED << unit, vad_ctx, running, in_use, holder, sessions, sess,
                  session_counter, wire, deferred, rpc, r_id, r_slot, wpc,
                  w_sessions, w_i, w_vad, w_whisper, w_new, w_text, now,
                  last_vad_time, last_whisper_time, iterations, spc >>

\* close handler: detachWebSocket, then enter destroySession
Close(c) ==
  /\ rpc = "idle"
  /\ ~WorkerHoldsRegistry
  /\ conn[c] = "open"
  /\ conn' = [conn EXCEPT ![c] = "closed"]
  /\ sess' = detachWebSocket(sess, c)
  /\ r_id' = c
  /\ rpc' = "d_erase"
  /\ UNCHANGED << unit, vad_ctx, running, in_use, holder, sessions, session_counter,
                  wire, deferred, r_slot, wpc, w_sessions, w_i, w_vad,
                  w_whisper, w_new, w_text, now, last_vad_time,
                  last_whisper_time, iterations, spc >>

\* destroySession: find and erase under sessions_mutex_, active = false
DestroyErase ==
  /\ rpc = "d_erase"
  /\ ~WorkerHoldsRegistry
  /\ IF r_id \in sessions
     THEN /\ sessions' = sessions \ {r_id}
          /\ sess' = [sess EXCEPT ![r_id].active = FALSE]
          /\ rpc' = "d_wait"
          /\ UNCHANGED << r_id, r_slot >>
     ELSE /\ rpc' = "idle" /\ r_id' = 0 /\ r_slot' = NoSlot
          /\ UNCHANGED << sessions, sess >>
  /\ UNCHANGED << unit, vad_ctx, running, in_use, holder, session_counter, conn,
                  wire, deferred, wpc, w_sessions, w_i, w_vad, w_whisper,
                  w_new, w_text, now, last_vad_time, last_whisper_time, iterations, spc >>

\* destroySession: the wait loop reads inference_running = false and ends
DestroyWait ==
  /\ rpc = "d_wait"
  /\ ~sess[r_id].inference_running
  /\ rpc' = "d_release"
  /\ UNCHANGED << unit, vad_ctx, running, in_use, holder, sessions, sess,
                  session_counter, conn, wire, deferred, r_id, r_slot, wpc,
                  w_sessions, w_i, w_vad, w_whisper, w_new, w_text, now,
                  last_vad_time, last_whisper_time, iterations, spc >>

\* destroySession: releaseContext(session->context_slot), return
DestroyRelease ==
  /\ rpc = "d_release"
  /\ in_use' = releaseContext(in_use, sess[r_id].context_slot)
  /\ holder' = [k \in Slots |->
                  IF k = sess[r_id].context_slot THEN 0 ELSE holder[k]]
  /\ rpc' = "idle" /\ r_id' = 0 /\ r_slot' = NoSlot
  /\ sess' = Gc(sess, sessions \cup Range(w_sessions))
  /\ UNCHANGED << unit, vad_ctx, running, sessions, session_counter, conn, wire,
                  deferred, wpc, w_sessions, w_i, w_vad, w_whisper, w_new,
                  w_text, now, last_vad_time, last_whisper_time, iterations, spc >>

\* a flush that sends the drained messages newest first
sendPending_Reversed(frames, pending) == frames \o Reverse(pending)

\* flushSessionMessagesOnEventLoop: ws->send of every drained message, in
\* the order of the deque
sendPending(frames, pending) == frames \o pending

\* a flush task that does not reset flush_pending
FlushBegin_NoClear ==
  /\ rpc = "idle"
  /\ ~WorkerHoldsRegistry
  /\ deferred # << >>
  /\ deferred' = Tail(deferred)
  /\ IF Head(deferred) \in sessions
     THEN /\ r_id' = Head(deferred)
          /\ rpc' = "f_drain"
     ELSE UNCHANGED << r_id, rpc >>
  /\ UNCHANGED << unit, vad_ctx, running, in_use, holder, sessions, sess,
                  session_counter, conn, wire, r_slot, wpc, w_sessions, w_i,
                  w_vad, w_whisper, w_new, w_text, now, last_vad_time,
                  last_whisper_time, iterations, spc >>

\* deferred task flushSessionMessagesOnEventLoop: lookup, flush_pending = false
FlushBegin ==
  /\ rpc = "idle"
  /\ ~WorkerHoldsRegistry
  /\ deferred # << >>
  /\ deferred' = Tail(deferred)
  /\ IF Head(deferred) \in sessions
     THEN /\ sess' = [sess EXCEPT ![Head(deferred)].flush_pending = FALSE]
          /\ r_id' = Head(deferred)
          /\ rpc' = "f_drain"
     ELSE UNCHANGED << sess, r_id, rpc >>
  /\ UNCHANGED << unit, vad_ctx, running, in_use, holder, sessions, session_counter,
                  conn, wire, r_slot, wpc, w_sessions, w_i, w_vad, w_whisper,
                  w_new, w_text, now, last_vad_time, last_whisper_time, iterations, spc >>

\* flushSessionMessagesOnEventLoop: drain, and send unless the socket is gone
FlushDrain ==
  /\ rpc = "f_drain"
  /\ wire' = IF sess[r_id].ws_handle
             THEN [wire EXCEPT ![r_id] = sendPending(@, sess[r_id].outgoing_messages)]
             ELSE wire
  /\ rpc' = "idle" /\ r_id' = 0
  /\ sess' = Gc([sess EXCEPT ![r_id].outgoing_messages = << >>],
                sessions \cup Range(w_sessions))
  /\ UNCHANGED << unit, vad_ctx, running, in_use, holder, sessions, session_counter,
                  conn, deferred, r_slot, wpc, w_sessions, w_i, w_vad,
                  w_whisper, w_new, w_text, now, last_vad_time,
                  last_whisper_time, iterations, spc >>

Reactor ==
  \/ Open
  \/ CreateInsert
  \/ Attach
  \/ OpenFail
  \/ \E c \in Ids, samples \in PcmChunks : Message(c, samples)
  \/ \E c \in Ids : Close(c)
  \/ DestroyErase
  \/ DestroyWait
  \/ DestroyRelease
  \/ FlushBegin
  \/ FlushDrain

\* ------------------------------------------------------------- worker
\* detectSpeechProb: 0.0 without a VAD context or samples, else the
\* model's last probability p (0 when the detection fails)
detectSpeechProb(vctx, samples, p) ==
  IF ~vctx \/ Len(samples) = 0 THEN 0 ELSE p

\* an updateVADState that ends speech only after more than
\* silence_trigger_ms of silence
updateVADStateCfg_Strict(S, now_ms, is_speech, trigger_ms, min_ms) ==
  CASE S.speech_state = "IDLE" ->
         IF is_speech
         THEN [S EXCEPT !.speech_state = "SPEAKING",
                        !.speech_start_ms = now_ms,
                        !.last_speech_ms = now_ms,
                        !.pending_text = << >>,
                        !.final_enqueued = FALSE]
         ELSE S
    [] S.speech_state = "SPEAKING" ->
         IF is_speech
         THEN [S EXCEPT !.last_speech_ms = now_ms]
         ELSE IF now_ms - S.last_speech_ms > trigger_ms
              THEN IF now_ms - S.speech_start_ms >= min_ms
                   THEN [S EXCEPT !.speech_state = "ENDING"]
                   ELSE [S EXCEPT !.speech_state = "IDLE"]
              ELSE S
    [] S.speech_state = "ENDING" ->
         IF is_speech
         THEN [S EXCEPT !.speech_state = "SPEAKING",
                        !.last_speech_ms = now_ms]
         ELSE S

\* an updateVADState whose resume from ENDING starts a new utterance
updateVADStateCfg_ResumeRestarts(S, now_ms, is_speech, trigger_ms, min_ms) ==
  CASE S.speech_state = "IDLE" ->
         IF is_speech
         THEN [S EXCEPT !.speech_state = "SPEAKING",
                        !.speech_start_ms = now_ms,
                        !.last_speech_ms = now_ms,
                        !.pending_text = << >>,
                        !.final_enqueued = FALSE]
         ELSE S
    [] S.speech_state = "SPEAKING" ->
         IF is_speech
         THEN [S EXCEPT !.last_speech_ms = now_ms]
         ELSE IF now_ms - S.last_speech_ms >= trigger_ms
              THEN IF now_ms - S.speech_start_ms >= min_ms
                   THEN [S EXCEPT !.speech_state = "ENDING"]
                   ELSE [S EXCEPT !.speech_state = "IDLE"]
              ELSE S
    [] S.speech_state = "ENDING" ->
         IF is_speech
         THEN [S EXCEPT !.speech_state = "SPEAKING",
                        !.speech_start_ms = now_ms,
                        !.last_speech_ms = now_ms,
                        !.last_text = << >>]
         ELSE S

\* an updateVADState whose speech start keeps pending_text
updateVADStateCfg_KeepPending(S, now_ms, is_speech, trigger_ms, min_ms) ==
  CASE S.speech_state = "IDLE" ->
         IF is_speech
         THEN [S EXCEPT !.speech_state = "SPEAKING",
                        !.speech_start_ms = now_ms,
                        !.last_speech_ms = now_ms,
                        !.final_enqueued = FALSE]
         ELSE S
    [] S.speech_state = "SPEAKING" ->
         IF is_speech
         THEN [S EXCEPT !.last_speech_ms = now_ms]
         ELSE IF now_ms - S.last_speech_ms >= trigger_ms
              THEN IF now_ms - S.speech_start_ms >= min_ms
                   THEN [S EXCEPT !.speech_state = "ENDING"]
                   ELSE [S EXCEPT !.speech_state = "IDLE"]
              ELSE S
    [] S.speech_state = "ENDING" ->
         IF is_speech
         THEN [S EXCEPT !.speech_state = "SPEAKING",
                        !.last_speech_ms = now_ms]
         ELSE S

\* the switch of updateVADState on one Session record, for a configured
\* silence_trigger_ms and min_speech_ms
updateVADStateCfg(S, now_ms, is_speech, trigger_ms, min_ms) ==
  CASE S.speech_state = "IDLE" ->
         IF is_speech
         THEN [S EXCEPT !.speech_state = "SPEAKING",
                        !.speech_start_ms = now_ms,
                        !.last_speech_ms = now_ms,
                        !.pending_text = << >>,
                        !.final_enqueued = FALSE]
         ELSE S
    [] S.speech_state = "SPEAKING" ->
         IF is_speech
         THEN [S EXCEPT !.last_speech_ms = now_ms]
         ELSE IF now_ms - S.last_speech_ms >= trigger_ms
              THEN IF now_ms - S.speech_start_ms >= min_ms
                   THEN [S EXCEPT !.speech_state = "ENDING"]
                   ELSE [S EXCEPT !.speech_state = "IDLE"]
              ELSE S
    [] S.speech_state = "ENDING" ->
         IF is_speech
         THEN [S EXCEPT !.speech_state = "SPEAKING",
                        !.last_speech_ms = now_ms]
         ELSE S

\* updateVADState under the configuration of the run
updateVADState(S, now_ms, is_speech) ==
  updateVADStateCfg(S, now_ms, is_speech, silence_trigger_ms, min_speech_ms)

\* a window that keeps all of the old audio
SlidingWindowCfg_TakeAll(old, new, keep, len) == old \o new

\* a window whose share of the old audio does not shrink with the length
\* of the new audio
SlidingWindowCfg_TakeIgnoresNew(old, new, keep, len) ==
  LET take == Min(Len(old), keep + len)
  IN SubSeq(old, Len(old) - take + 1, Len(old)) \o new

\* runInference: [keep from old] + [new audio], for a configured
\* n_samples_keep and n_samples_len
SlidingWindowCfg(old, new, keep, len) ==
  LET take == IF old # << >>
              THEN Min(Len(old), Max(0, keep + len - Len(new)))
              ELSE 0
  IN SubSeq(old, Len(old) - take + 1, Len(old)) \o new

\* the window under the configuration of the run
SlidingWindow(old, new) ==
  SlidingWindowCfg(old, new, n_samples_keep, n_samples_len)

\* text of a whisper_full call: segments concatenated and trimmed, or
\* nothing when the call failed
InferenceText(rc, raw) == IF rc = 0 THEN Trim(raw) ELSE << >>

\* emitFinal's reset without last_text.clear()
ResetSession_KeepLastText(S) ==
  [S EXCEPT !.speech_state = "IDLE",
            !.pending_text = << >>,
            !.pcmf32_old = << >>,
            !.audio = << >>]

\* the fields emitFinal resets before it returns
ResetSession(S) ==
  [S EXCEPT !.speech_state = "IDLE",
            !.pending_text = << >>,
            !.pcmf32_old = << >>,
            !.last_text = << >>,
            !.audio = << >>]

\* a runInference that enqueues every non-empty text
runInferenceCfg_NoDedup(S, rc, raw, keep, len) ==
  IF S.context_slot = NoSlot THEN S
  ELSE LET new == S.audio
           cleared == [S EXCEPT !.audio = << >>]
       IN IF new = << >> THEN cleared
          ELSE LET saved == [cleared EXCEPT
                               !.pcmf32_old = SlidingWindowCfg(@, new, keep, len)]
                   text == InferenceText(rc, raw)
               IN IF rc # 0 THEN saved
                  ELSE IF text # << >>
                       THEN [saved EXCEPT
                               !.outgoing_messages = Append(@, makePartialMessage(text)),
                               !.pending_text = text,
                               !.last_text = text]
                       ELSE saved

\* a runInference that reads the segments whatever whisper_full returned
runInferenceCfg_IgnoreRc(S, rc, raw, keep, len) ==
  IF S.context_slot = NoSlot THEN S
  ELSE LET new == S.audio
           cleared == [S EXCEPT !.audio = << >>]
       IN IF new = << >> THEN cleared
          ELSE LET saved == [cleared EXCEPT
                               !.pcmf32_old = SlidingWindowCfg(@, new, keep, len)]
                   text == Trim(raw)
               IN IF text # << >> /\ text # saved.last_text
                  THEN [saved EXCEPT
                          !.outgoing_messages = Append(@, makePartialMessage(text)),
                          !.pending_text = text,
                          !.last_text = text]
                  ELSE saved

\* runInference on a Session record when no other thread touches the
\* session: rc and raw are the return code and the segment text of
\* whisper_full
runInferenceCfg(S, rc, raw, keep, len) ==
  IF S.context_slot = NoSlot THEN S
  ELSE LET new == S.audio
           cleared == [S EXCEPT !.audio = << >>]
       IN IF new = << >> THEN cleared
          ELSE LET saved == [cleared EXCEPT
                               !.pcmf32_old = SlidingWindowCfg(@, new, keep, len)]
                   text == InferenceText(rc, raw)
               IN IF rc # 0 THEN saved
                  ELSE IF text # << >> /\ text # saved.last_text
                       THEN [saved EXCEPT
                               !.outgoing_messages = Append(@, makePartialMessage(text)),
                               !.pending_text = text,
                               !.last_text = text]
                       ELSE saved

\* an emitFinal without its speech_state guard
emitFinal_NoGuard(S, rc, raw) ==
  LET final_text == IF S.pcmf32_old # << >> /\ S.context_slot # NoSlot
                    THEN InferenceText(rc, raw)
                    ELSE << >>
  IN IF final_text # << >>
     THEN ResetSession([S EXCEPT
                          !.outgoing_messages = Append(@, makeFinalMessage(final_text)),
                          !.final_enqueued = TRUE])
     ELSE ResetSession(S)

\* emitFinal on a Session record when no other thread touches the session
emitFinal(S, rc, raw) ==
  IF S.speech_state # "ENDING" THEN S
  ELSE LET final_text == IF S.pcmf32_old # << >> /\ S.context_slot # NoSlot
                         THEN InferenceText(rc, raw)
                         ELSE << >>
       IN IF final_text # << >>
          THEN ResetSession([S EXCEPT
                               !.outgoing_messages = Append(@, makeFinalMessage(final_text)),
                               !.final_enqueued = TRUE])
          ELSE ResetSession(S)

\* notifySessionHasMessages posts a flush task for session s
NotifyPosts(s) ==
  /\ s \in sessions
  /\ sess[s].active
  /\ ~sess[s].flush_pending

\* the session the worker is handling
w_cur == w_sessions[w_i]

\* a transcription pass that also runs partial inference for IDLE sessions
WhisperBranch_IdlePartial(vctx, S) ==
  IF ~vctx
  THEN IF ~S.inference_running /\ AudioHasMinDuration(S.audio)
       THEN "partial" ELSE "skip"
  ELSE IF S.speech_state \in {"SPEAKING", "IDLE"}
       THEN IF ~S.inference_running THEN "partial" ELSE "skip"
       ELSE IF S.speech_state = "ENDING" THEN "final" ELSE "skip"

\* a transcription pass that ignores speech_state: with a VAD model it
\* still runs partial inference whenever the ring holds a step of audio
WhisperBranch_NoVadGate(vctx, S) ==
  IF ~S.inference_running /\ AudioHasMinDuration(S.audio)
  THEN "partial" ELSE "skip"

\* the branch the transcription pass takes for session record S
WhisperBranch(vctx, S) ==
  IF ~vctx
  THEN IF ~S.inference_running /\ AudioHasMinDuration(S.audio)
       THEN "partial" ELSE "skip"
  ELSE IF S.speech_state = "SPEAKING"
       THEN IF ~S.inference_running THEN "partial" ELSE "skip"
       ELSE IF S.speech_state = "ENDING" THEN "final" ELSE "skip"

\* head of the while loop: running_ test, clock, snapshot of active sessions
WLoop ==
  /\ wpc = "loop"
  /\ IF ~running
     THEN /\ wpc' = "exited"
          /\ w_sessions' = << >>
          /\ UNCHANGED << now, w_vad, w_whisper, iterations >>
     ELSE \E d \in ClockSteps :
            /\ iterations < MaxIter
            /\ iterations' = iterations + 1
            /\ now' = now + d
            /\ w_sessions' \in SeqsOf({s \in sessions : sess[s].active})
            /\ w_vad' = (vad_ctx /\ now' - last_vad_time >= vad_check_ms)
            /\ w_whisper' = (now' - last_whisper_time >= step_ms)
            /\ wpc' = "vad"
  /\ w_i' = 1
  /\ sess' = Gc(sess, sessions \cup Range(w_sessions') \cup RHold(rpc, r_id))
  /\ UNCHANGED << unit, vad_ctx, running, in_use, holder, sessions, session_counter,
                  conn, wire, deferred, rpc, r_id, r_slot, w_new, w_text,
                  last_vad_time, last_whisper_time, spc >>

\* VAD pass: updateVADState for the next session of the snapshot
WVad ==
  /\ wpc = "vad"
  /\ IF w_vad /\ w_i <= Len(w_sessions)
     THEN /\ LET recent == AudioGetLastMs(sess[w_cur].audio)
             IN IF recent = << >>
                THEN sess' = sess
                ELSE \E p \in VadProbs :
                       sess' = [sess EXCEPT ![w_cur] =
                                  updateVADState(@, now,
                                    detectSpeechProb(vad_ctx, recent, p) > vad_threshold)]
          /\ w_i' = w_i + 1
          /\ UNCHANGED << wpc, last_vad_time >>
     ELSE /\ last_vad_time' = IF w_vad THEN now ELSE last_vad_time
          /\ w_i' = 1
          /\ wpc' = "whisper"
          /\ UNCHANGED sess
  /\ UNCHANGED << unit, vad_ctx, running, in_use, holder, sessions, session_counter,
                  conn, wire, deferred, rpc, r_id, r_slot, w_sessions, w_vad,
                  w_whisper, w_new, w_text, now, last_whisper_time, iterations, spc >>

\* transcription pass: pick the branch for the next session; the partial
\* branch sets inference_running, the final branch enters emitFinal; after
\* the last session the snapshot goes out of scope and the thread sleeps
WWhisper ==
  /\ wpc = "whisper"
  /\ IF w_whisper /\ w_i <= Len(w_sessions)
     THEN LET b == WhisperBranch(vad_ctx, sess[w_cur])
          IN /\ CASE b = "partial" ->
                       /\ sess' = [sess EXCEPT ![w_cur].inference_running = TRUE]
                       /\ wpc' = "ri_getall"
                       /\ w_i' = w_i
                  [] b = "final" ->
                       /\ sess' = sess
                       /\ wpc' = IF sess[w_cur].pcmf32_old # << >>
                                    /\ sess[w_cur].context_slot # NoSlot
                                 THEN "ef_infer" ELSE "ef_reset"
                       /\ w_i' = w_i
                  [] OTHER ->
                       /\ sess' = sess
                       /\ wpc' = wpc
                       /\ w_i' = w_i + 1
             /\ UNCHANGED << last_whisper_time, w_sessions >>
     ELSE /\ last_whisper_time' = IF w_whisper THEN now ELSE last_whisper_time
          /\ w_i' = 1
          /\ wpc' = "loop"
          /\ w_sessions' = << >>
          /\ sess' = Gc(sess, sessions \cup RHold(rpc, r_id))
  /\ UNCHANGED << unit, vad_ctx, running, in_use, holder, sessions, session_counter,
                  conn, wire, deferred, rpc, r_id, r_slot, w_vad,
                  w_whisper, w_new, w_text, now, last_vad_time, iterations, spc >>

\* runInference: null checks, then audio->getAll()
RiGetAll ==
  /\ wpc = "ri_getall"
  /\ IF sess[w_cur].context_slot = NoSlot
     THEN wpc' = "ri_done" /\ w_new' = w_new
     ELSE wpc' = "ri_clear" /\ w_new' = sess[w_cur].audio
  /\ UNCHANGED << unit, vad_ctx, running, in_use, holder, sessions, sess,
                  session_counter, conn, wire, deferred, rpc, r_id, r_slot,
                  w_sessions, w_i, w_vad, w_whisper, w_text, now,
                  last_vad_time, last_whisper_time, iterations, spc >>

\* a runInference whose return on an empty ring skips the loop's reset
\* of inference_running
RiClear_KeepsFlagOnEmpty ==
  /\ wpc = "ri_clear"
  /\ IF w_new = << >>
     THEN /\ sess' = [sess EXCEPT ![w_cur].audio = << >>]
          /\ wpc' = "whisper"
          /\ w_i' = w_i + 1
     ELSE /\ sess' = [sess EXCEPT ![w_cur].audio = << >>,
                                  ![w_cur].pcmf32_old = SlidingWindow(@, w_new)]
          /\ wpc' = "ri_infer"
          /\ w_i' = w_i
  /\ w_new' = << >>
  /\ UNCHANGED << unit, vad_ctx, running, in_use, holder, sessions, session_counter,
                  conn, wire, deferred, rpc, r_id, r_slot, w_sessions,
                  w_vad, w_whisper, w_text, now, last_vad_time,
                  last_whisper_time, iterations, spc >>

\* runInference: audio->clear(), build the window, save it, call whisper_full
RiClear ==
  /\ wpc = "ri_clear"
  /\ IF w_new = << >>
     THEN /\ sess' = [sess EXCEPT ![w_cur].audio = << >>]
          /\ wpc' = "ri_done"
     ELSE /\ sess' = [sess EXCEPT ![w_cur].audio = << >>,
                                  ![w_cur].pcmf32_old = SlidingWindow(@, w_new)]
          /\ wpc' = "ri_infer"
  /\ w_new' = << >>
  /\ UNCHANGED << unit, vad_ctx, running, in_use, holder, sessions, session_counter,
                  conn, wire, deferred, rpc, r_id, r_slot, w_sessions, w_i,
                  w_vad, w_whisper, w_text, now, last_vad_time,
                  last_whisper_time, iterations, spc >>

\* runInference: whisper_full returns; enqueue a partial if the text changed
RiInfer ==
  /\ wpc = "ri_infer"
  /\ \E rc \in ReturnCodes, raw \in RawTexts :
       LET text == InferenceText(rc, raw)
       IN IF rc = 0 /\ text # << >> /\ text # sess[w_cur].last_text
          THEN /\ sess' = [sess EXCEPT ![w_cur].outgoing_messages =
                                         Append(@, makePartialMessage(text))]
               /\ w_text' = text
               /\ wpc' = "ri_notify"
          ELSE /\ wpc' = "ri_done"
               /\ UNCHANGED << sess, w_text >>
  /\ UNCHANGED << unit, vad_ctx, running, in_use, holder, sessions, session_counter,
                  conn, wire, deferred, rpc, r_id, r_slot, w_sessions, w_i,
                  w_vad, w_whisper, w_new, now, last_vad_time,
                  last_whisper_time, iterations, spc >>

\* runInference: notifySessionHasMessages, then pending_text and last_text
RiNotify ==
  /\ wpc = "ri_notify"
  /\ deferred' = IF NotifyPosts(w_cur) THEN Append(deferred, w_cur) ELSE deferred
  /\ sess' = [sess EXCEPT
                ![w_cur].flush_pending = IF NotifyPosts(w_cur) THEN TRUE ELSE @,
                ![w_cur].pending_text = w_text,
                ![w_cur].last_text = w_text]
  /\ w_text' = << >>
  /\ wpc' = "ri_done"
  /\ UNCHANGED << unit, vad_ctx, running, in_use, holder, sessions, session_counter,
                  conn, wire, rpc, r_id, r_slot, w_sessions, w_i, w_vad,
                  w_whisper, w_new, now, last_vad_time, last_whisper_time, iterations, spc >>

\* a loop that does not reset inference_running after runInference
RiDone_NoClear ==
  /\ wpc = "ri_done"
  /\ w_i' = w_i + 1
  /\ wpc' = "whisper"
  /\ UNCHANGED << unit, vad_ctx, running, in_use, holder, sessions, sess,
                  session_counter, conn, wire, deferred, rpc, r_id, r_slot,
                  w_sessions, w_vad, w_whisper, w_new, w_text, now,
                  last_vad_time, last_whisper_time, iterations, spc >>

\* back in inferenceLoop: inference_running = false
RiDone ==
  /\ wpc = "ri_done"
  /\ sess' = [sess EXCEPT ![w_cur].inference_running = FALSE]
  /\ w_i' = w_i + 1
  /\ wpc' = "whisper"
  /\ UNCHANGED << unit, vad_ctx, running, in_use, holder, sessions, session_counter,
                  conn, wire, deferred, rpc, r_id, r_slot, w_sessions, w_vad,
                  w_whisper, w_new, w_text, now, last_vad_time,
                  last_whisper_time, iterations, spc >>

\* emitFinal: whisper_full returns; enqueue a final if the text is not empty
EfInfer ==
  /\ wpc = "ef_infer"
  /\ \E rc \in ReturnCodes, raw \in RawTexts :
       LET final_text == InferenceText(rc, raw)
       IN IF final_text # << >>
          THEN /\ sess' = [sess EXCEPT ![w_cur].outgoing_messages =
                                         Append(@, makeFinalMessage(final_text)),
                                       ![w_cur].final_enqueued = TRUE]
               /\ wpc' = "ef_notify"
          ELSE /\ wpc' = "ef_reset"
               /\ UNCHANGED sess
  /\ UNCHANGED << unit, vad_ctx, running, in_use, holder, sessions, session_counter,
                  conn, wire, deferred, rpc, r_id, r_slot, w_sessions, w_i,
                  w_vad, w_whisper, w_new, w_text, now, last_vad_time,
                  last_whisper_time, iterations, spc >>

\* emitFinal: notifySessionHasMessages
EfNotify ==
  /\ wpc = "ef_notify"
  /\ deferred' = IF NotifyPosts(w_cur) THEN Append(deferred, w_cur) ELSE deferred
  /\ sess' = [sess EXCEPT
                ![w_cur].flush_pending = IF NotifyPosts(w_cur) THEN TRUE ELSE @]
  /\ wpc' = "ef_reset"
  /\ UNCHANGED << unit, vad_ctx, running, in_use, holder, sessions, session_counter,
                  conn, wire, rpc, r_id, r_slot, w_sessions, w_i, w_vad,
                  w_whisper, w_new, w_text, now, last_vad_time,
                  last_whisper_time, iterations, spc >>

\* emitFinal: reset the session, return
EfReset ==
  /\ wpc = "ef_reset"
  /\ sess' = [sess EXCEPT ![w_cur] = ResetSession(@)]
  /\ w_i' = w_i + 1
  /\ wpc' = "whisper"
  /\ UNCHANGED << unit, vad_ctx, running, in_use, holder, sessions, session_counter,
                  conn, wire, deferred, rpc, r_id, r_slot, w_sessions, w_vad,
                  w_whisper, w_new, w_text, now, last_vad_time,
                  last_whisper_time, iterations, spc >>

Worker ==
  \/ WLoop
  \/ WVad
  \/ WWhisper
  \/ RiGetAll
  \/ RiClear
  \/ RiInfer
  \/ RiNotify
  \/ RiDone
  \/ EfInfer
  \/ EfNotify
  \/ EfReset

\* ---------------------------------------------------------------- stop
\* stop(): running_ was true; clear it and go to join the worker
StopBegin ==
  /\ spc = "idle"
  /\ running
  /\ running' = FALSE
  /\ spc' = "join"
  /\ UNCHANGED << unit, vad_ctx, in_use, holder, sessions, sess, session_counter,
                  conn, wire, deferred, rpc, r_id, r_slot, wpc, w_sessions,
                  w_i, w_vad, w_whisper, w_new, w_text, now, last_vad_time,
                  last_whisper_time, iterations >>

\* a stop() that releases the slots and leaves the sessions registered
StopCleanup_KeepsRegistry ==
  /\ spc = "join"
  /\ ~WorkerHoldsRegistry
  /\ wpc = "exited"
  /\ in_use' = [k \in Slots |->
                  IF \E s \in sessions : sess[s].context_slot = k
                  THEN FALSE ELSE in_use[k]]
  /\ holder' = [k \in Slots |->
                  IF \E s \in sessions : sess[s].context_slot = k
                  THEN 0 ELSE holder[k]]
  /\ spc' = "done"
  /\ sess' = [s \in Ids |-> IF s \in sessions
                            THEN [sess[s] EXCEPT !.active = FALSE]
                            ELSE sess[s]]
  /\ UNCHANGED << unit, vad_ctx, running, sessions, session_counter, conn, wire,
                  deferred, rpc, r_id, r_slot, wpc, w_sessions, w_i, w_vad,
                  w_whisper, w_new, w_text, now, last_vad_time,
                  last_whisper_time, iterations >>

\* stop(): the join returned; release every registered session's slot
\* and clear the registry, under sessions_mutex_
StopCleanup ==
  /\ spc = "join"
  /\ ~WorkerHoldsRegistry
  /\ wpc = "exited"
  /\ in_use' = [k \in Slots |->
                  IF \E s \in sessions : sess[s].context_slot = k
                  THEN FALSE ELSE in_use[k]]
  /\ holder' = [k \in Slots |->
                  IF \E s \in sessions : sess[s].context_slot = k
                  THEN 0 ELSE holder[k]]
  /\ sessions' = {}
  /\ spc' = "done"
  /\ sess' = Gc([s \in Ids |-> IF s \in sessions
                               THEN [sess[s] EXCEPT !.active = FALSE]
                               ELSE sess[s]],
                Range(w_sessions) \cup RHold(rpc, r_id))
  /\ UNCHANGED << unit, vad_ctx, running, session_counter, conn, wire, deferred,
                  rpc, r_id, r_slot, wpc, w_sessions, w_i, w_vad, w_whisper,
                  w_new, w_text, now, last_vad_time, last_whisper_time, iterations >>

Stop ==
  \/ StopBegin
  \/ StopCleanup

Next ==
  \/ Reactor
  \/ Worker
  \/ Stop

Spec == Init /\ [][Next]_vars

\* the worker thread and the thread inside destroySession are scheduled:
\* each takes its next step when that step stays possible; whisper_full
\* returns, since the step that ends a call is one of the worker's
FairSpec ==
  /\ Spec
  /\ WF_vars(Worker)
  /\ WF_vars(DestroyErase \/ DestroyWait \/ DestroyRelease)

\* ------------------------------------------- an AudioBuffer on its own
\* One ring of capacity "capacity", used as the server uses a session's
\* ring: the reactor pushes (onAudioReceived), the worker reads with
\* getAll and then clears (runInference), each call under the ring's
\* mutex; get, getLastMs and pushFloat are the other calls of the class.
\* pushed and removed are history: every float pushed so far, and whether
\* a call has removed samples.
RingNew(m) ==
  [ component  |-> "ring",
    capacity   |-> m,
    buffer     |-> << >>,
    pushed     |-> << >>,
    removed    |-> FALSE,
    pc         |-> "idle",
    pcmf32_new |-> << >>,
    out        |-> << >> ]

\* AudioBuffer(max_seconds, sample_rate): an empty ring
RingInit ==
  /\ ServerIdle
  /\ unit \in {RingNew(m) : m \in 0..MaxCap}

\* onAudioReceived: audio->push(data, len)
RingPush(samples) ==
  /\ Len(unit.pushed) + Len(samples) <= MaxPushed
  /\ unit' = [unit EXCEPT
                !.buffer = push(@, samples, unit.capacity),
                !.pushed = @ \o [i \in 1..Len(samples) |-> int16ToFloat(samples[i])]]
  /\ UNCHANGED server_vars

\* pushFloat(samples, count)
RingPushFloat(samples) ==
  /\ Len(unit.pushed) + Len(samples) <= MaxPushed
  /\ LET floats == [i \in 1..Len(samples) |-> int16ToFloat(samples[i])]
     IN unit' = [unit EXCEPT
                   !.buffer = pushFloat(@, floats, unit.capacity),
                   !.pushed = @ \o floats]
  /\ UNCHANGED server_vars

\* get(out, max_samples, clear_retrieved)
RingGet(n, clear_retrieved) ==
  /\ unit' = [unit EXCEPT
                !.out = getOut(unit.buffer, n),
                !.buffer = getRest(@, n, clear_retrieved),
                !.removed = @ \/ (clear_retrieved /\ getOut(unit.buffer, n) # << >>)]
  /\ UNCHANGED server_vars

\* getLastMs(ms), ms being worth n samples
RingGetLastMs(n) ==
  /\ unit' = [unit EXCEPT !.out = getLast(unit.buffer, n)]
  /\ UNCHANGED server_vars

\* runInference: pcmf32_new = audio->getAll()
RingGetAll ==
  /\ unit.pc = "idle"
  /\ unit' = [unit EXCEPT !.pcmf32_new = getAll(unit.buffer), !.pc = "read"]
  /\ UNCHANGED server_vars

\* runInference: audio->clear()
RingClear ==
  /\ unit.pc = "read"
  /\ unit' = [unit EXCEPT !.buffer = << >>, !.pc = "idle", !.removed = TRUE]
  /\ UNCHANGED server_vars

RingNext ==
  \/ \E samples \in RingChunks : RingPush(samples)
  \/ \E samples \in RingChunks : RingPushFloat(samples)
  \/ \E n \in 0..MaxCap, clear_retrieved \in BOOLEAN : RingGet(n, clear_retrieved)
  \/ \E n \in 0..MaxCap : RingGetLastMs(n)
  \/ RingGetAll
  \/ RingClear

RingSpec == RingInit /\ [][RingNext]_vars

\* ------------------------------- a session's VAD state machine on its own
\* One session under a configured silence_trigger_ms and min_speech_ms:
\* the worker calls updateVADState at the times of its VAD passes (the
\* ring holding audio), and emitFinal once the session is ENDING.  prev,
\* is_speech and last are history: the session before the last call, the
\* classification of the last tick, and which call came last.
\* values of silence_trigger_ms a server may be configured with
VadTriggers == {1, 2, silence_trigger_ms}
\* values of min_speech_ms a server may be configured with
VadMinSpeech == {0, 1, min_speech_ms}

VadNew(trigger, minimum) ==
  [ component  |-> "vad",
    trigger_ms |-> trigger,
    min_ms     |-> minimum,
    session    |-> NewSession(1),
    prev       |-> NewSession(1),
    now_ms     |-> 0,
    is_speech  |-> FALSE,
    last       |-> "none",
    ticks      |-> 0 ]

\* a session right after createSession
VadInit ==
  /\ ServerIdle
  /\ unit \in {VadNew(t, m) : t \in VadTriggers, m \in VadMinSpeech}

\* inferenceLoop: updateVADState(session, now_ms), d ms after the last call
VadTick(d, speech_prob) ==
  /\ unit.ticks < MaxTicks
  /\ LET is_speech == speech_prob > vad_threshold
         now_ms == unit.now_ms + d
     IN unit' = [unit EXCEPT
                   !.session = updateVADStateCfg(@, now_ms, is_speech,
                                                 unit.trigger_ms, unit.min_ms),
                   !.prev = unit.session,
                   !.now_ms = now_ms,
                   !.is_speech = is_speech,
                   !.last = "tick",
                   !.ticks = @ + 1]
  /\ UNCHANGED server_vars

\* inferenceLoop: emitFinal(session) for a session in ENDING
VadFinal ==
  /\ unit.session.speech_state = "ENDING"
  /\ unit' = [unit EXCEPT
                !.session = ResetSession(@),
                !.prev = unit.session,
                !.last = "final"]
  /\ UNCHANGED server_vars

VadNext ==
  \/ \E d \in {1, unit.trigger_ms - 1, unit.trigger_ms}, p \in VadProbs : VadTick(d, p)
  \/ VadFinal

VadSpec == VadInit /\ [][VadNext]_vars

\* ---------------------------------- the ring read by duration, at 16 kHz
\* A session's ring (30 s at WHISPER_SAMPLE_RATE) that receives whole
\* frames and is read with getLastMs and by the transcription pass of a
\* server without VAD.  before, ms, out and has are history: the ring
\* before the last call, its argument and what it returned or decided.
\* frame lengths in samples: 100 ms, 251 ms less one sample, 251 ms
DurFrames == {1600, 4015, 4016}
\* durations asked for and values of step_ms
DurMs == {0, 30, 251, 500}
\* max_samples_ of AudioBuffer(30.0f, WHISPER_SAMPLE_RATE)
DurCapacity == 30 * sample_rate

DurNew ==
  [ component |-> "duration",
    buffer    |-> << >>,
    before    |-> << >>,
    frames    |-> 0,
    last      |-> "none",
    ms        |-> 0,
    out       |-> << >>,
    has       |-> FALSE ]

DurInit ==
  /\ ServerIdle
  /\ unit = DurNew

\* onAudioReceived: audio->push(data, len) of a frame of n samples
DurPush(n) ==
  /\ unit.frames < MaxFrames
  /\ unit' = [unit EXCEPT
                !.buffer = push(@, [i \in 1..n |-> i], DurCapacity),
                !.before = unit.buffer,
                !.frames = @ + 1,
                !.last = "push"]
  /\ UNCHANGED server_vars

\* getLastMs(ms)
DurGetLastMs(ms) ==
  /\ unit' = [unit EXCEPT
                !.before = unit.buffer,
                !.last = "getLastMs",
                !.ms = ms,
                !.out = getLastMs(unit.buffer, ms)]
  /\ UNCHANGED server_vars

\* inferenceLoop with VAD disabled, step_ms = ms: the session gets
\* runInference, which reads and clears the ring, when
\* hasMinDuration(step_ms); inference_running is false here, the worker
\* being the only thread that sets it
DurWhisperTick(ms) ==
  /\ LET run == hasMinDuration(unit.buffer, ms)
     IN unit' = [unit EXCEPT
                   !.buffer = IF run THEN << >> ELSE @,
                   !.before = unit.buffer,
                   !.last = "whisper",
                   !.ms = ms,
                   !.has = run]
  /\ UNCHANGED server_vars

DurNext ==
  \/ \E n \in DurFrames : DurPush(n)
  \/ \E ms \in DurMs : DurGetLastMs(ms)
  \/ \E ms \in DurMs : DurWhisperTick(ms)

DurSpec == DurInit /\ [][DurNext]_vars

\* ------------------------------------- one session driven by the worker
\* One session with a VAD model loaded, under a configured
\* silence_trigger_ms, min_speech_ms, ring capacity, n_samples_keep and
\* n_samples_len, and with no other thread in between: the reactor pushes
\* frames, the worker calls updateVADState, runInference (in SPEAKING, as
\* inferenceLoop does) and emitFinal.  prev, last, is_speech, rc and text
\* are history: the session before the last call, which call it was, the
\* classification of the last tick, and the return code and trimmed text of
\* the last whisper_full; failed says that a whisper_full of runInference
\* has returned a failure code.
\* (silence_trigger_ms, min_speech_ms) of a run: the defaults, and a
\* trigger shorter than the minimum
SessVadCfg == {<<silence_trigger_ms, min_speech_ms>>, <<1, min_speech_ms>>}
\* (n_samples_keep, n_samples_len) of a run
SessWindowCfg == {<<0, 1>>, <<1, 2>>}
\* the ring's max_samples
SessCap == 2
\* segment texts of whisper_full
SessTexts == RawTexts \cup {<<"b">>}

SessNew(trigger, minimum, cap, keep, len) ==
  [ component  |-> "session",
    trigger_ms |-> trigger,
    min_ms     |-> minimum,
    capacity   |-> cap,
    n_keep     |-> keep,
    n_len      |-> len,
    session    |-> NewSession(1),
    prev       |-> NewSession(1),
    now_ms     |-> 0,
    last       |-> "none",
    is_speech  |-> FALSE,
    rc         |-> 0,
    text       |-> << >>,
    failed     |-> FALSE,
    calls      |-> 0 ]

\* a session right after createSession
SessInit ==
  /\ ServerIdle
  /\ unit \in {SessNew(v[1], v[2], SessCap, w[1], w[2]) :
                 v \in SessVadCfg, w \in SessWindowCfg}

\* onAudioReceived: audio->push(data, len)
SessPush(samples) ==
  /\ unit' = [unit EXCEPT
                !.session.audio = push(@, samples, unit.capacity),
                !.prev = unit.session,
                !.last = "push"]
  /\ UNCHANGED server_vars

\* inferenceLoop: updateVADState(session, now_ms), d ms after the last
\* tick (the runs tick silence_trigger_ms apart); it returns at once when
\* the ring is empty
SessTick(d, speech_prob) ==
  /\ unit.calls < MaxCalls
  /\ LET recent == getLast(unit.session.audio, n_samples_vad)
         is_speech == detectSpeechProb(TRUE, recent, speech_prob) > vad_threshold
         now_ms == unit.now_ms + d
     IN unit' = [unit EXCEPT
                   !.session = IF recent = << >> THEN @
                               ELSE updateVADStateCfg(@, now_ms, is_speech,
                                                      unit.trigger_ms, unit.min_ms),
                   !.prev = unit.session,
                   !.now_ms = now_ms,
                   !.is_speech = is_speech,
                   !.last = IF recent = << >> THEN "skip" ELSE "tick",
                   !.calls = @ + 1]
  /\ UNCHANGED server_vars

\* inferenceLoop: a SPEAKING session gets runInference
SessPartial(rc, raw) ==
  /\ unit.calls < MaxCalls
  /\ unit.session.speech_state = "SPEAKING"
  /\ ~unit.session.inference_running
  /\ unit' = [unit EXCEPT
                !.session = runInferenceCfg(@, rc, raw, unit.n_keep, unit.n_len),
                !.prev = unit.session,
                !.failed = @ \/ (/\ unit.session.context_slot # NoSlot
                                 /\ unit.session.audio # << >>
                                 /\ rc # 0),
                !.last = "partial",
                !.rc = rc,
                !.text = InferenceText(rc, raw),
                !.calls = @ + 1]
  /\ UNCHANGED server_vars

\* emitFinal(session), in whatever state the session is
SessFinal(rc, raw) ==
  /\ unit.calls < MaxCalls
  /\ unit' = [unit EXCEPT
                !.session = emitFinal(@, rc, raw),
                !.prev = unit.session,
                !.last = "final",
                !.rc = rc,
                !.text = InferenceText(rc, raw),
                !.calls = @ + 1]
  /\ UNCHANGED server_vars

SessNext ==
  \/ \E x \in RingSamples : SessPush(<<x>>)
  \/ \E p \in VadProbs : SessTick(unit.trigger_ms, p)
  \/ \E rc \in ReturnCodes, raw \in SessTexts : SessPartial(rc, raw)
  \/ \E rc \in ReturnCodes, raw \in SessTexts : SessFinal(rc, raw)

SessSpec == SessInit /\ [][SessNext]_vars

\* ------------------------------------- the upgrade handler on its own
\* One upgrade request at a time against a server started with or
\* without --token.  A query string is a sequence of characters.
TokenParam == <<"t", "o", "k", "e", "n">>
\* the configured secret
Secret == <<"s">>
\* parameter names and values of the requests
QueryNames == {TokenParam, <<"x">> \o TokenParam, <<"x">>}
QueryValues == {Secret, <<"b">>, <<"s", "s">>, << >>}
QueryParams == {n \o <<"=">> \o v : n \in QueryNames, v \in QueryValues}
\* req->getQuery(): no parameter, one, or two joined by '&'
Queries ==
  {<< >>} \cup QueryParams
          \cup {p \o <<"&">> \o q : p \in QueryParams, q \in QueryParams}

\* s occurs in q at position i (from 1)
OccursAt(q, s, i) ==
  /\ i + Len(s) - 1 <= Len(q)
  /\ \A j \in 1..Len(s) : q[i + j - 1] = s[j]

\* std::string_view::find(s, from): the first position >= from at which s
\* occurs, 0 for npos
Find(q, s, from) ==
  LET hits == {i \in from..(Len(q) + 1) : OccursAt(q, s, i)}
  IN IF hits = {} THEN 0
     ELSE CHOOSE i \in hits : \A j \in hits : i <= j

\* getQueryParam: the text after the first `param=` up to the next '&'
getQueryParam(query, param) ==
  LET search == param \o <<"=">>
      found == Find(query, search, 1)
  IN IF found = 0 THEN << >>
     ELSE LET pos == found + Len(search)
              amp == Find(query, <<"&">>, pos)
              end == IF amp = 0 THEN Len(query) + 1 ELSE amp
          IN SubSeq(query, pos, end - 1)

AuthNew(token) ==
  [ component  |-> "auth",
    auth_token |-> token,
    query      |-> << >>,
    pc         |-> "idle",
    status     |-> "none",
    session    |-> FALSE ]

\* the server after parseArgs: --token given or not
AuthInit ==
  /\ ServerIdle
  /\ unit \in {AuthNew(t) : t \in {<< >>, Secret}}

\* an upgrade request arrives
AuthRequest(q) ==
  /\ unit.pc \in {"idle", "rejected", "open"}
  /\ unit' = [unit EXCEPT !.query = q, !.pc = "upgrade",
                          !.status = "none", !.session = FALSE]
  /\ UNCHANGED server_vars

\* .upgrade: 401 when a token is configured and getQueryParam differs
AuthUpgrade ==
  /\ unit.pc = "upgrade"
  /\ IF /\ unit.auth_token # << >>
        /\ getQueryParam(unit.query, TokenParam) # unit.auth_token
     THEN unit' = [unit EXCEPT !.pc = "rejected", !.status = "401"]
     ELSE unit' = [unit EXCEPT !.pc = "upgraded", !.status = "101"]
  /\ UNCHANGED server_vars

\* .open of the upgraded socket: createSession
AuthOpen ==
  /\ unit.pc = "upgraded"
  /\ unit' = [unit EXCEPT !.pc = "open", !.session = TRUE]
  /\ UNCHANGED server_vars

AuthNext ==
  \/ \E q \in Queries : AuthRequest(q)
  \/ AuthUpgrade
  \/ AuthOpen

AuthSpec == AuthInit /\ [][AuthNext]_vars

\* ------------------------------- the mutexes and the signal handler
\* The two threads around one session, one step per lock or unlock of
\* sessions_mutex_ and context_pool_mutex_, and signalHandler, which runs
\* stop() on whichever thread the signal interrupts, wherever that thread
\* stands.  A position names what its thread holds.
LockNew ==
  [ component         |-> "locks",
    running           |-> TRUE,
    registered        |-> FALSE,
    in_use            |-> FALSE,
    inference_running |-> FALSE,
    rpc               |-> "idle",
    wpc               |-> "loop",
    hpc               |-> "none",
    h_on              |-> "none" ]

\* nobody holds sessions_mutex_
SessionsMutexFree ==
  /\ unit.rpc \notin {"c_reg", "d_reg", "f_reg"}
  /\ unit.wpc \notin {"snapshot", "notify"}
  /\ unit.hpc \notin {"cleanup", "release"}

\* nobody holds context_pool_mutex_
ContextsMutexFree ==
  /\ unit.rpc \notin {"c_pool", "d_pool"}
  /\ unit.hpc # "release"

\* thread t can run its own code: the process has not been aborted and
\* t is not inside signalHandler
Runs(t) ==
  /\ unit.hpc # "aborted"
  /\ ~(unit.h_on = t /\ unit.hpc \in {"join", "joined", "cleanup", "release"})

LockInit ==
  /\ ServerIdle
  /\ unit = LockNew

\* createSession: acquireContext under the pool mutex, then the insert
\* under the registry mutex
LockCreateSession ==
  /\ Runs("reactor")
  /\ \/ /\ unit.rpc = "idle"
        /\ ContextsMutexFree
        /\ unit' = [unit EXCEPT !.rpc = "c_pool"]
     \/ /\ unit.rpc = "c_pool"
        /\ unit' = IF unit.in_use
                   THEN [unit EXCEPT !.rpc = "idle"]
                   ELSE [unit EXCEPT !.rpc = "c_mid", !.in_use = TRUE]
     \/ /\ unit.rpc = "c_mid"
        /\ SessionsMutexFree
        /\ unit' = [unit EXCEPT !.rpc = "c_reg"]
     \/ /\ unit.rpc = "c_reg"
        /\ unit' = [unit EXCEPT !.rpc = "idle", !.registered = TRUE]
  /\ UNCHANGED server_vars

\* destroySession: the erase under the registry mutex, the wait for
\* inference_running, releaseContext under the pool mutex
LockDestroySession ==
  /\ Runs("reactor")
  /\ \/ /\ unit.rpc = "idle"
        /\ SessionsMutexFree
        /\ unit' = [unit EXCEPT !.rpc = "d_reg"]
     \/ /\ unit.rpc = "d_reg"
        /\ unit' = IF unit.registered
                   THEN [unit EXCEPT !.rpc = "d_wait", !.registered = FALSE]
                   ELSE [unit EXCEPT !.rpc = "idle"]
     \/ /\ unit.rpc = "d_wait"
        /\ ~unit.inference_running
        /\ unit' = [unit EXCEPT !.rpc = "d_mid"]
     \/ /\ unit.rpc = "d_mid"
        /\ ContextsMutexFree
        /\ unit' = [unit EXCEPT !.rpc = "d_pool"]
     \/ /\ unit.rpc = "d_pool"
        /\ unit' = [unit EXCEPT !.rpc = "idle", !.in_use = FALSE]
  /\ UNCHANGED server_vars

\* flushSessionMessagesOnEventLoop: the lookup under the registry mutex
LockFlush ==
  /\ Runs("reactor")
  /\ \/ /\ unit.rpc = "idle"
        /\ SessionsMutexFree
        /\ unit' = [unit EXCEPT !.rpc = "f_reg"]
     \/ /\ unit.rpc = "f_reg"
        /\ unit' = [unit EXCEPT !.rpc = "idle"]
  /\ UNCHANGED server_vars

\* inferenceLoop: the running_ test, the snapshot under the registry
\* mutex, runInference with or without a message to announce, the lookup
\* of notifySessionHasMessages under the registry mutex, the reset of
\* inference_running
LockInferenceLoop ==
  /\ Runs("worker")
  /\ \/ /\ unit.wpc = "loop"
        /\ unit' = [unit EXCEPT !.wpc = IF unit.running THEN "enter" ELSE "exited"]
     \/ /\ unit.wpc = "enter"
        /\ SessionsMutexFree
        /\ unit' = [unit EXCEPT !.wpc = "snapshot"]
     \/ /\ unit.wpc = "snapshot"
        /\ unit' = IF unit.registered
                   THEN [unit EXCEPT !.wpc = "infer", !.inference_running = TRUE]
                   ELSE [unit EXCEPT !.wpc = "loop"]
     \/ /\ unit.wpc = "infer"
        /\ \E to \in {"n_enter", "done"} : unit' = [unit EXCEPT !.wpc = to]
     \/ /\ unit.wpc = "n_enter"
        /\ SessionsMutexFree
        /\ unit' = [unit EXCEPT !.wpc = "notify"]
     \/ /\ unit.wpc = "notify"
        /\ unit' = [unit EXCEPT !.wpc = "done"]
     \/ /\ unit.wpc = "done"
        /\ unit' = [unit EXCEPT !.wpc = "loop", !.inference_running = FALSE]
  /\ UNCHANGED server_vars

\* SIGINT or SIGTERM interrupts thread t, which enters signalHandler and
\* stop(): running_ = false
LockSignal(t) ==
  /\ unit.hpc = "none"
  /\ unit.running
  /\ unit' = [unit EXCEPT !.hpc = "join", !.h_on = t, !.running = FALSE]
  /\ UNCHANGED server_vars

\* stop() inside the handler: inference_thread_.join(), which throws when
\* the worker itself calls it; then the walk of the registry under
\* sessions_mutex_, with releaseContext under the pool mutex inside it
LockStop ==
  /\ \/ /\ unit.hpc = "join"
        /\ unit.h_on = "worker"
        /\ unit' = [unit EXCEPT !.hpc = "aborted"]
     \/ /\ unit.hpc = "join"
        /\ unit.h_on = "reactor"
        /\ unit.wpc = "exited"
        /\ unit' = [unit EXCEPT !.hpc = "joined"]
     \/ /\ unit.hpc = "joined"
        /\ SessionsMutexFree
        /\ unit' = [unit EXCEPT !.hpc = "cleanup"]
     \/ /\ unit.hpc = "cleanup"
        /\ IF unit.registered
           THEN /\ ContextsMutexFree
                /\ unit' = [unit EXCEPT !.hpc = "release"]
           ELSE unit' = [unit EXCEPT !.hpc = "done"]
     \/ /\ unit.hpc = "release"
        /\ unit' = [unit EXCEPT !.hpc = "done", !.in_use = FALSE,
                                !.registered = FALSE]
  /\ UNCHANGED server_vars

LockNext ==
  \/ LockCreateSession
  \/ LockDestroySession
  \/ LockFlush
  \/ LockInferenceLoop
  \/ \E t \in {"reactor", "worker"} : LockSignal(t)
  \/ LockStop

LockSpec == LockInit /\ [][LockNext]_vars

\* =============================================================== claims
\* the last n elements of q
LastN(q, n) == SubSeq(q, Len(q) - n + 1, Len(q))

\* an inference call (whisper_full) of the worker is executing
Inferring == wpc \in {"ri_infer", "ef_infer"}

\* the slots whose in_use flag is set
BusySlots == {k \in Slots : in_use[k]}

\* the frames and queued messages of connection c, oldest first
Emitted(c) == wire[c] \o sess[c].outgoing_messages

HasType(q, t) == \E i \in 1..Len(q) : q[i].type = t

\* C1: an acquire (the step of createSession that returns from
\* acquireContext with a slot) never returns a slot whose in_use flag is
\* set, nor a slot acquired earlier and not released since.
C1_AcquireExclusive ==
  [][(rpc = "idle" /\ rpc' = "create_insert")
       => (r_slot' \in Slots /\ ~in_use[r_slot'] /\ holder[r_slot'] = 0)]_vars

\* a second connection acquired the slot the first one had released
C1_Witness ==
  /\ rpc = "create_insert"
  /\ session_counter = 2
  /\ r_slot \in Slots
  /\ conn[1] = "closed"

\* C2 (as claimed): while an inference call for session S is executing,
\* S's slot is in_use and S is the session it was last acquired for, not
\* released since.
C2_InferenceOnHeldSlot ==
  Inferring =>
    /\ sess[w_cur].context_slot \in BusySlots
    /\ holder[sess[w_cur].context_slot] = w_cur

\* C3 (as claimed): the step of destroySession that releases the slot is
\* never taken while an inference call for that session is executing.
C3_NoReleaseDuringInference ==
  [][(rpc = "d_release" /\ rpc' # "d_release")
       => ~(Inferring /\ w_cur = r_id)]_vars

\* every in_use slot is referenced by exactly one registered session and
\* every registered session with a slot references an in_use slot
SlotsMatchSessions ==
  /\ Cardinality({s \in sessions : sess[s].context_slot # NoSlot})
       = Cardinality(BusySlots)
  /\ \A k \in BusySlots :
       Cardinality({s \in sessions : sess[s].context_slot = k}) = 1

\* C4 (as claimed): in every reachable state the sessions holding a slot
\* and the in_use slots correspond one to one.
C4_Original == SlotsMatchSessions

\* C4 (amended): they correspond one to one whenever no createSession,
\* destroySession or stop call is in progress.
C4_SlotsMatchWhenQuiescent ==
  (rpc \notin {"create_insert", "d_erase", "d_wait", "d_release"} /\ spc # "join")
    => SlotsMatchSessions

\* a session is registered with its slot, and a slot came back to the pool
C4_Witness ==
  /\ rpc = "idle"
  /\ spc = "idle"
  /\ session_counter = 2
  /\ conn[1] = "closed"
  /\ 2 \in sessions
  /\ sess[2].context_slot \in BusySlots

\* C5 (as claimed): every createSession returns a session and no
\* connection is answered with an error in place of ready, however many
\* slots are busy.
C5_EveryOpenGetsReady ==
  /\ rpc # "open_fail"
  /\ \A c \in Ids : ~HasType(wire[c], "error")

C7_IdleHoldsNoSlot ==
  \A s \in sessions :
    sess[s].speech_state = "IDLE" => sess[s].context_slot = NoSlot

\* C8 (as claimed): when emitFinal returns for a session, the slot the
\* session held is free.
C8_FinalReleasesSlot ==
  [][(wpc = "ef_reset" /\ wpc' # "ef_reset"
        /\ sess[w_cur].context_slot # NoSlot)
       => ~in_use'[sess[w_cur].context_slot]]_vars

\* C9: when emitFinal returns for a session it entered in ENDING, the
\* session is IDLE and pending_text, pcmf32_old, last_text and the ring
\* are empty, whatever the inference did; and the inference step of
\* emitFinal enqueues nothing, or one final whose text is trimmed and
\* not empty.
C9_FinalAlwaysResets ==
  /\ [][(wpc = "ef_reset" /\ wpc' # "ef_reset")
          => /\ sess[w_cur].speech_state = "ENDING"
             /\ sess'[w_cur].speech_state = "IDLE"
             /\ sess'[w_cur].pending_text = << >>
             /\ sess'[w_cur].pcmf32_old = << >>
             /\ sess'[w_cur].last_text = << >>
             /\ sess'[w_cur].audio = << >>
             /\ sess'[w_cur].outgoing_messages = sess[w_cur].outgoing_messages]_vars
  /\ [][(wpc = "ef_infer" /\ wpc' # "ef_infer")
          => \/ /\ wpc' = "ef_reset"
                /\ sess'[w_cur].outgoing_messages = sess[w_cur].outgoing_messages
             \/ /\ wpc' = "ef_notify"
                /\ \E m \in {makeFinalMessage(Trim(raw)) : raw \in RawTexts} :
                     /\ m.text # << >>
                     /\ sess'[w_cur].outgoing_messages
                          = Append(sess[w_cur].outgoing_messages, m)]_vars
  /\ [](\A c \in Ids : \A i \in 1..Len(Emitted(c)) :
          Emitted(c)[i].type = "final"
            => (Emitted(c)[i].text # << >>
                  /\ Trim(Emitted(c)[i].text) = Emitted(c)[i].text))

\* emitFinal has returned after a final was enqueued: the session is
\* registered, IDLE and cleared, and the final is the newest message
C9_Witness ==
  \E s \in sessions :
    /\ wpc = "whisper"
    /\ sess[s].speech_state = "IDLE"
    /\ sess[s].pcmf32_old = << >>
    /\ sess[s].last_text = << >>
    /\ Emitted(s) # << >>
    /\ Emitted(s)[Len(Emitted(s))].type = "final"

\* C10: without a VAD model every session's speech_state is IDLE and no
\* final message is queued or written for any connection.
C10_NoFinalWithoutVad ==
  ~vad_ctx =>
    \A c \in Ids :
      /\ sess[c].speech_state = "IDLE"
      /\ ~HasType(Emitted(c), "final")

\* without a VAD model a partial was produced and written to the socket
C10_Witness ==
  /\ ~vad_ctx
  /\ \E c \in Ids : HasType(wire[c], "partial")

\* the step enqueues one message for session s
Enqueues(s) ==
  /\ Len(sess'[s].outgoing_messages) = Len(sess[s].outgoing_messages) + 1
  /\ SubSeq(sess'[s].outgoing_messages, 1, Len(sess[s].outgoing_messages))
       = sess[s].outgoing_messages

\* the message the step enqueues for session s
Enqueued(s) == sess'[s].outgoing_messages[Len(sess'[s].outgoing_messages)]

\* the worker stands between enqueueMessage and notifySessionHasMessages
\* for session s
Notifying(s) == wpc \in {"ri_notify", "ef_notify"} /\ w_cur = s

\* C11: the frames of a connection are written in enqueue order: the
\* queue of a session only changes by one message added at its end or by
\* being emptied, and the frames written to a socket after ready are the
\* whole queue as it stood, oldest first, the queue being emptied in the
\* same step; this holds while the worker enqueues between and during
\* flushes.
C11_DeliveryInEnqueueOrder ==
  [][\A c \in Ids :
       /\ sess'[c].outgoing_messages # sess[c].outgoing_messages
            => (Enqueues(c) \/ sess'[c].outgoing_messages = << >>)
       /\ wire'[c] # wire[c]
            => \/ /\ wire[c] = << >>
                  /\ wire'[c] \in {<<makeReadyMessage>>, <<makeErrorMessage>>}
               \/ /\ wire'[c] = wire[c] \o sess[c].outgoing_messages
                  /\ sess'[c].outgoing_messages = << >>]_vars

\* a flush of a session has cleared flush_pending and is about to drain
\* two queued messages while the worker, which enqueued the second one,
\* has not yet called notify
C11_Witness ==
  /\ rpc = "f_drain"
  /\ Notifying(r_id)
  /\ Len(sess[r_id].outgoing_messages) = 2
  /\ sess[r_id].outgoing_messages[1].type = "partial"
  /\ sess[r_id].outgoing_messages[2].type = "final"

Created(c) ==
  /\ c <= session_counter
  /\ ~(r_id = c /\ rpc \in {"open_fail", "create_insert", "attach"})
  /\ ~HasType(wire[c], "error")

\* C13: a connection whose session was created has ready as its first
\* frame and no second ready; every later frame is a partial or a final.
C13_ReadyOnceAndFirst ==
  \A c \in Ids :
    /\ Created(c) =>
         /\ wire[c] # << >>
         /\ wire[c][1].type = "ready"
    /\ \A i \in 2..Len(wire[c]) : wire[c][i].type \in {"partial", "final"}
    /\ wire[c] # << >> => wire[c][1].type \in {"ready", "error"}

\* a connection got ready and then a partial
C13_Witness ==
  \E c \in Ids :
    /\ Created(c)
    /\ Len(wire[c]) >= 2
    /\ wire[c][2].type = "partial"

\* a flush task for session s is posted and not yet finished
FlushOutstanding(s) ==
  \/ s \in Range(deferred)
  \/ rpc = "f_drain" /\ r_id = s

\* C14: when a registered, active, attached session has a queued message
\* and the worker is not between the enqueue and its notify, a flush task
\* for the session is outstanding.
C14_QueuedImpliesFlushOutstanding ==
  \A s \in sessions :
    ( /\ sess[s].active
      /\ sess[s].ws_handle
      /\ sess[s].outgoing_messages # << >>
      /\ ~Notifying(s) )
      => FlushOutstanding(s)

\* a first flush has written a partial, and the notify that followed the
\* next enqueue has posted a second flush task
C14_Witness ==
  \E s \in sessions :
    /\ HasType(wire[s], "partial")
    /\ sess[s].ws_handle
    /\ sess[s].outgoing_messages # << >>
    /\ ~Notifying(s)
    /\ s \in Range(deferred)
    /\ sess[s].flush_pending

\* C15 (as claimed): the close handler is never in the wait loop of
\* destroySession while an inference call for its session is executing.
C15_ReactorNeverWaits ==
  ~( /\ rpc = "d_wait"
     /\ sess[r_id].inference_running
     /\ Inferring
     /\ w_cur = r_id )

\* the inference calls in progress on slot k: the sessions marked
\* inference_running (runInference) and the session emitFinal is running
\* whisper_full for
CallsOn(k) ==
  Cardinality({s \in Ids : sess[s].context_slot = k /\ sess[s].inference_running})
    + Cardinality({s \in Ids : sess[s].context_slot = k
                                 /\ wpc = "ef_infer" /\ w_cur = s})

\* C16: at most one inference call is in progress on a slot, a partial
\* inference that is executing is the one of the session marked
\* inference_running, and no session is marked while any other call
\* executes.
C16_OneCallPerContext ==
  /\ \A k \in Slots : CallsOn(k) <= 1
  /\ wpc = "ri_infer" => sess[w_cur].inference_running
  /\ Inferring => \A s \in Ids \ {w_cur} : ~sess[s].inference_running

\* a final inference is executing for a session that had a partial before
C16_Witness ==
  /\ wpc = "ef_infer"
  /\ HasType(Emitted(w_cur), "partial")
  /\ CallsOn(sess[w_cur].context_slot) = 1

\* C17: after any sequence of push, pushFloat, get, getAll, getLastMs and
\* clear calls by the reactor and the worker, the ring holds at most
\* max_samples samples.
C17_RingWithinCapacity == Len(unit.buffer) <= unit.capacity

\* more samples were pushed than the ring holds, some were removed by the
\* worker, and the ring is full again
C17_Witness ==
  /\ unit.component = "ring"
  /\ unit.capacity >= 1
  /\ unit.removed
  /\ Len(unit.pushed) > unit.capacity
  /\ Len(unit.buffer) = unit.capacity

\* C18: as long as no call has removed samples, a ring of capacity m into
\* which k samples were pushed holds the last min(k, m) of them, in push
\* order.
C18_RingKeepsNewest ==
  (unit.component = "ring" /\ ~unit.removed)
    => unit.buffer = LastN(unit.pushed, Min(Len(unit.pushed), unit.capacity))

\* three samples went into a ring of capacity two in more than one call,
\* and the oldest one was dropped
C18_Witness ==
  /\ unit.component = "ring"
  /\ ~unit.removed
  /\ unit.capacity = 2
  /\ unit.pushed = <<int16ToFloat(1), int16ToFloat(2), int16ToFloat(1)>>
  /\ unit.buffer = <<int16ToFloat(2), int16ToFloat(1)>>

\* C19 (as claimed): the clear of runInference removes exactly the
\* samples its getAll returned, so that no sample pushed in between is
\* dropped unread.
C19_ReadAndClearAtomic ==
  [][(unit.component = "ring" /\ unit.pc = "read" /\ unit'.pc = "idle")
       => unit.buffer = unit.pcmf32_new]_vars

\* the last call was a non-speech tick on a session that was SPEAKING for
\* at least min_speech_ms
SilentTickWhileSpeaking ==
  /\ unit.component = "vad"
  /\ unit.last = "tick"
  /\ ~unit.is_speech
  /\ unit.prev.speech_state = "SPEAKING"
  /\ unit.now_ms - unit.prev.speech_start_ms >= unit.min_ms

\* C20: such a tick leaves the session SPEAKING when the silence is
\* silence_trigger_ms - 1 and moves it to ENDING when the silence is
\* silence_trigger_ms, for every configured silence_trigger_ms.
C20_SilenceBoundary ==
  SilentTickWhileSpeaking =>
    /\ unit.now_ms - unit.prev.last_speech_ms = unit.trigger_ms - 1
         => unit.session.speech_state = "SPEAKING"
    /\ unit.now_ms - unit.prev.last_speech_ms = unit.trigger_ms
         => unit.session.speech_state = "ENDING"

\* under a silence_trigger_ms of 2 ms a session stayed SPEAKING after 1 ms
\* of silence and went to ENDING after 2 ms
C20_Witness ==
  /\ SilentTickWhileSpeaking
  /\ unit.trigger_ms = 2
  /\ unit.ticks = 3
  /\ unit.prev.last_speech_ms = 1
  /\ unit.now_ms = 3
  /\ unit.session.speech_state = "ENDING"

\* ------------------------------------------- claims on a single session
\* the last call on the session was an updateVADState that got past its
\* empty-ring return
SessTicked == unit.component = "session" /\ unit.last = "tick"

\* the last call was a runInference
SessRanPartial == unit.component = "session" /\ unit.last = "partial"

\* the last call was an emitFinal
SessRanFinal == unit.component = "session" /\ unit.last = "final"

\* messages the last call enqueued
SessEnqueued ==
  SubSeq(unit.session.outgoing_messages,
         Len(unit.prev.outgoing_messages) + 1,
         Len(unit.session.outgoing_messages))

\* the last call was a non-speech tick on a SPEAKING session with silence
\* >= silence_trigger_ms and now - speech_start_ms < min_speech_ms
ShortUtteranceTick ==
  /\ SessTicked
  /\ unit.prev.speech_state = "SPEAKING"
  /\ ~unit.is_speech
  /\ unit.now_ms - unit.prev.last_speech_ms >= unit.trigger_ms
  /\ unit.now_ms - unit.prev.speech_start_ms < unit.min_ms

\* C21: a SPEAKING session that sees a non-speech tick with silence >=
\* silence_trigger_ms and now - speech_start_ms < min_speech_ms goes to
\* IDLE, no final is enqueued, and the discard clears pcmf32_old,
\* pending_text and the audio ring and releases the slot.
C21_ShortUtteranceDiscard ==
  ShortUtteranceTick =>
    /\ unit.session.speech_state = "IDLE"
    /\ SessEnqueued = << >>
    /\ unit.session.pcmf32_old = << >>
    /\ unit.session.pending_text = << >>
    /\ unit.session.audio = << >>
    /\ unit.session.context_slot = NoSlot

\* the last call was a speech-positive tick on an ENDING session
ResumeTick ==
  /\ SessTicked
  /\ unit.prev.speech_state = "ENDING"
  /\ unit.is_speech

\* C22: a speech-positive tick on an ENDING session returns it to SPEAKING
\* with last_speech_ms = now, enqueues no final, and leaves last_text,
\* pcmf32_old and speech_start_ms unchanged.
C22_ResumeDuringEnding ==
  ResumeTick =>
    /\ unit.session.speech_state = "SPEAKING"
    /\ unit.session.last_speech_ms = unit.now_ms
    /\ SessEnqueued = << >>
    /\ unit.session.last_text = unit.prev.last_text
    /\ unit.session.pcmf32_old = unit.prev.pcmf32_old
    /\ unit.session.speech_start_ms = unit.prev.speech_start_ms

\* a session that had a partial went to ENDING and was resumed by a speech
\* tick later than its speech start
C22_Witness ==
  /\ ResumeTick
  /\ unit.prev.last_text # << >>
  /\ unit.prev.pcmf32_old # << >>
  /\ unit.now_ms > unit.prev.speech_start_ms
  /\ unit.session.speech_state = "SPEAKING"

\* the last call was a tick on an IDLE session
IdleTick == SessTicked /\ unit.prev.speech_state = "IDLE"

\* C24: a speech-positive tick on an IDLE session moves it to SPEAKING,
\* sets speech_start_ms = last_speech_ms = now and clears pending_text; a
\* non-speech tick on an IDLE session changes no session field, whatever
\* came before it.
C24_IdleTick ==
  IdleTick =>
    IF unit.is_speech
    THEN /\ unit.session.speech_state = "SPEAKING"
         /\ unit.session.speech_start_ms = unit.now_ms
         /\ unit.session.last_speech_ms = unit.now_ms
         /\ unit.session.pending_text = << >>
    ELSE unit.session = unit.prev

\* speech started on a session that was IDLE with a pending_text left
\* over from an earlier utterance
C24_Witness ==
  /\ IdleTick
  /\ unit.is_speech
  /\ unit.prev.pending_text # << >>
  /\ unit.prev.speech_start_ms > 0
  /\ unit.session.speech_state = "SPEAKING"
  /\ unit.session.speech_start_ms = unit.now_ms

\* C25: emitFinal on a session whose state is IDLE or SPEAKING changes no
\* session field and enqueues no message.
C25_FinalOnlyWhenEnding ==
  (SessRanFinal /\ unit.prev.speech_state \in {"IDLE", "SPEAKING"}) =>
    unit.session = unit.prev

\* emitFinal was called on a SPEAKING session with a window and a pending
\* partial, and on a whisper_full that would have returned text
C25_Witness ==
  /\ SessRanFinal
  /\ unit.prev.speech_state = "SPEAKING"
  /\ unit.prev.pcmf32_old # << >>
  /\ unit.prev.pending_text # << >>
  /\ unit.rc = 0
  /\ unit.text # << >>
  /\ unit.session.speech_state = "SPEAKING"

\* the last runInference got as far as whisper_full: the session held a
\* slot and the ring was not empty
SessInferred ==
  /\ SessRanPartial
  /\ unit.prev.context_slot # NoSlot
  /\ unit.prev.audio # << >>

\* C26: runInference enqueues a partial exactly when whisper_full
\* succeeded and the trimmed text is non-empty and differs from last_text,
\* and then last_text and pending_text are that text; no partial has an
\* empty text, and while last_text is set the newest message is the
\* partial with that text, so two partials in a row of one utterance
\* differ.
C26_PartialOnlyWhenTextChanged ==
  /\ SessRanPartial =>
       IF SessInferred /\ unit.rc = 0 /\ unit.text # << >>
                       /\ unit.text # unit.prev.last_text
       THEN /\ SessEnqueued = <<makePartialMessage(unit.text)>>
            /\ unit.session.last_text = unit.text
            /\ unit.session.pending_text = unit.text
       ELSE /\ SessEnqueued = << >>
            /\ unit.session.last_text = unit.prev.last_text
            /\ unit.session.pending_text = unit.prev.pending_text
  /\ unit.component = "session" =>
       LET out == unit.session.outgoing_messages
       IN /\ \A i \in 1..Len(out) :
               out[i].type = "partial" => out[i].text # << >>
          /\ unit.session.last_text # << >> =>
               /\ out # << >>
               /\ out[Len(out)] = makePartialMessage(unit.session.last_text)

\* whisper_full returned the text of the previous partial again and
\* nothing was enqueued
C26_Witness ==
  /\ SessInferred
  /\ unit.rc = 0
  /\ unit.text # << >>
  /\ unit.text = unit.prev.last_text
  /\ SessEnqueued = << >>
  /\ Len(unit.session.outgoing_messages) = 1

\* samples of pcmf32_old the last runInference kept
SessTake ==
  Min(Len(unit.prev.pcmf32_old),
      Max(0, unit.n_keep + unit.n_len - Len(unit.prev.audio)))

\* C27: a runInference with non-empty new audio sets pcmf32_old to the
\* last keep samples of the old pcmf32_old followed by all new samples,
\* keep = min(|pcmf32_old|, max(0, n_keep + n_length - |new|)), whatever
\* whisper_full returns afterwards; with no new audio it changes no
\* session field.
C27_SlidingWindow ==
  /\ SessInferred =>
       unit.session.pcmf32_old
         = LastN(unit.prev.pcmf32_old, SessTake) \o unit.prev.audio
  /\ (SessRanPartial /\ unit.prev.audio = << >>) =>
       unit.session = unit.prev

\* a window built from part of the old window and two new samples
C27_Witness ==
  /\ SessInferred
  /\ SessTake > 0
  /\ SessTake < Len(unit.prev.pcmf32_old)
  /\ Len(unit.prev.audio) = 2
  /\ Len(unit.session.pcmf32_old) = SessTake + 2

\* C28: when whisper_full fails in runInference no message is enqueued,
\* speech_state, last_text, pending_text and the slot are unchanged, and
\* the session is left as the loop needs it to run inference on the next
\* transcription tick: SPEAKING and not inference_running.
C28_FailureKeepsSession ==
  (SessInferred /\ unit.rc # 0) =>
    /\ SessEnqueued = << >>
    /\ unit.session.speech_state = unit.prev.speech_state
    /\ unit.session.last_text = unit.prev.last_text
    /\ unit.session.pending_text = unit.prev.pending_text
    /\ unit.session.context_slot = unit.prev.context_slot
    /\ unit.session.speech_state = "SPEAKING"
    /\ ~unit.session.inference_running

\* after a failed whisper_full a later runInference of the session ran
\* whisper_full again and enqueued its partial
C28_Witness ==
  /\ SessInferred
  /\ unit.failed
  /\ unit.rc = 0
  /\ unit.prev.last_text = << >>
  /\ SessEnqueued = <<makePartialMessage(unit.text)>>

\* ------------------------------------------ claims on the upgrade handler
\* what a query string means: it has a parameter (from the start or a '&'
\* up to the next '&' or the end) that reads name=value
HasParam(q, name, value) ==
  \E i \in 1..Len(q) :
    /\ i = 1 \/ q[i - 1] = "&"
    /\ OccursAt(q, name \o <<"=">> \o value, i)
    /\ LET next == i + Len(name) + 1 + Len(value)
       IN next = Len(q) + 1 \/ (next <= Len(q) /\ q[next] = "&")

\* the handler has answered a request of a server started with --token
AuthDecided ==
  /\ unit.component = "auth"
  /\ unit.auth_token # << >>
  /\ unit.pc \in {"rejected", "upgraded", "open"}

\* C23: with an auth token configured, a request is accepted only if its
\* query string has a parameter named exactly token whose value is the
\* secret; every other request is answered 401 and gets no session.
C23_TokenParamRequired ==
  (AuthDecided /\ ~HasParam(unit.query, TokenParam, unit.auth_token)) =>
    /\ unit.status = "401"
    /\ ~unit.session

\* ------------------------------------------ claims on the server, continued
\* a whisper_full call of the worker is executing, or its next step is an
\* updateVADState call
WorkerCalling ==
  \/ Inferring
  \/ wpc = "vad" /\ w_vad /\ w_i <= Len(w_sessions)

C30_NoWriteAfterClose ==
  [][\A c \in Ids : conn[c] = "closed" => wire'[c] = wire[c]]_vars

\* the worker posted a flush task for a session that had got its ready
\* frame, the close handler has since run to its end, and the task is the
\* next the event loop executes
C30_Witness ==
  \E c \in Ids :
    /\ conn[c] = "closed"
    /\ rpc = "idle"
    /\ c \notin sessions
    /\ deferred # << >>
    /\ Head(deferred) = c
    /\ HasType(wire[c], "ready")

\* flush tasks of session s posted to the event loop and not yet run
QueuedFlushes(s) == Cardinality({i \in 1..Len(deferred) : deferred[i] = s})

\* C31: at most one deferred flush task per session is queued and not yet
\* run at any instant, also when notifies race with detachWebSocket and
\* with a running flush.
C31_OneFlushTaskPerSession ==
  \A s \in Ids : QueuedFlushes(s) <= 1

\* C32: stop() releases slots only after the worker thread has been
\* joined, and when it returns the registry is empty and every slot has
\* in_use = false.
C32_StopReleasesEverything ==
  [][(spc = "join" /\ spc' = "done") =>
       /\ wpc = "exited"
       /\ sessions' = {}
       /\ \A k \in Slots : ~in_use'[k]]_vars

\* ------------------------------------- claims on the ring read by duration
\* the last call on the ring was getLastMs
DurRead == unit.component = "duration" /\ unit.last = "getLastMs"

\* C33: getLastMs(ms) returns the last min(floor(ms * rate / 1000), size)
\* samples of the ring in order and leaves the ring unchanged; on an empty
\* ring it returns an empty sequence.
C33_GetLastMs ==
  DurRead =>
    /\ unit.out = LastN(unit.before,
                        Min((unit.ms * sample_rate) \div 1000, Len(unit.before)))
    /\ unit.buffer = unit.before
    /\ unit.before = << >> => unit.out = << >>

\* the last call on the ring was a transcription tick without VAD
DurTicked == unit.component = "duration" /\ unit.last = "whisper"

\* C34: with VAD disabled, a transcription tick runs partial inference for
\* a session exactly when its ring holds at least step_ms of audio (and
\* inference_running is false); a session with less audio is skipped and
\* its ring is left untouched.
C34_NoVadRunsOnStepOfAudio ==
  DurTicked =>
    /\ unit.has <=> (Len(unit.before) * 1000 >= unit.ms * sample_rate)
    /\ ~unit.has => unit.buffer = unit.before

\* session s exists and VAD never classified its audio as speech: the
\* IDLE -> SPEAKING transition, the only one out of IDLE, stamps
\* speech_start_ms with the loop's clock, which is positive
NeverSpoke(s) == sess[s] # NoSession /\ sess[s].speech_start_ms = 0

Destroying == rpc \in {"d_erase", "d_wait", "d_release"}

SilenceElapsedTick ==
  /\ unit.component = "session"
  /\ unit.last \in {"tick", "skip"}
  /\ unit.prev.speech_state = "SPEAKING"
  /\ ~unit.is_speech
  /\ unit.now_ms - unit.prev.last_speech_ms >= unit.trigger_ms

\* C37: a SPEAKING session whose audio is no longer classified as speech
\* leaves SPEAKING (to ENDING or IDLE) at the VAD tick that comes once
\* silence_trigger_ms has elapsed, also when the ring is empty at that
\* tick because the client stopped sending.
C37_SilenceEndsSpeaking ==
  SilenceElapsedTick => unit.session.speech_state # "SPEAKING"

\* the process runs, the worker has not exited, and no thread can take a
\* step: the reactor and the worker both wait, and nothing can end either
\* wait
BothBlocked ==
  /\ unit.component = "locks"
  /\ unit.hpc # "aborted"
  /\ unit.wpc # "exited"
  /\ ~ENABLED LockNext

\* C38: no deadlock: in no interleaving of createSession, destroySession,
\* flush and stop on the reactor with the worker loop are both threads
\* blocked forever on the registry or pool mutex, on the join or on the
\* inference_running wait.
C38_NoDeadlock == ~BothBlocked

\* the step is a releaseContext(k) on behalf of session s: the last step
\* of destroySession(s), or stop()'s walk over a registry that holds s
Releases(s, k) ==
  /\ sess[s].context_slot = k
  /\ \/ rpc = "d_release" /\ rpc' = "idle" /\ r_id = s
     \/ spc = "join" /\ spc' = "done" /\ s \in sessions

\* C39: slots are conserved: whenever no handler is running and every
\* created session has been destroyed, no slot is in use; and every
\* releaseContext finds its slot in use and acquired for the session it
\* is called for, so no acquisition is released twice.
C39_SlotsConserved ==
  /\ []((rpc = "idle" /\ sessions = {}) => \A k \in Slots : ~in_use[k])
  /\ [][\A s \in Ids, k \in Slots :
          Releases(s, k) => (in_use[k] /\ holder[k] = s /\ ~in_use'[k])]_vars

\* two sessions were created one after the other on the same slot and
\* both destroyed, and the slot is free again
C39_Witness ==
  /\ rpc = "idle"
  /\ session_counter = 2
  /\ conn[1] = "closed" /\ conn[2] = "closed"
  /\ HasType(wire[1], "ready") /\ HasType(wire[2], "ready")
  /\ sessions = {}
  /\ spc = "idle"
  /\ \A k \in Slots : ~in_use[k]

\* the most samples pcmf32_old may hold under the configuration of the run
WindowBound == Max(unit.n_keep + unit.n_len, unit.capacity)

\* C40: after any sequence of partial inferences pcmf32_old holds at most
\* max(n_keep + n_length, ring capacity) samples, however long the
\* utterance; the audio a final inference reads is pcmf32_old, so it is
\* bounded by the same value.
C40_WindowBounded ==
  unit.component = "session" =>
    /\ Len(unit.session.pcmf32_old) <= WindowBound
    /\ Len(unit.prev.pcmf32_old) <= WindowBound

\* a partial inference got new audio on top of a window that was already
\* at the bound, which is above the ring's capacity, and left a window
\* of the same length
C40_Witness ==
  /\ SessInferred
  /\ WindowBound > unit.capacity
  /\ Len(unit.prev.pcmf32_old) = WindowBound
  /\ Len(unit.session.pcmf32_old) = WindowBound

====
